---------------------------- MODULE Spec2Model ----------------------------
(***************************************************************************)
(* hiveGo: the feature registry and versioned encoder (package ai), the    *)
(* Scorer abstraction (package ai) and the TensorFlow model adapter        *)
(* (package tensorflow).                                                   *)
(*                                                                         *)
(* float32 values are modelled by integers: every value the encoder writes *)
(* is an integer count, and the adapter never inspects what the runtime    *)
(* returns, only how many entries it returned.                             *)
(***************************************************************************)
EXTENDS Integers, Sequences, FiniteSets, TLC

VARIABLES
    \* The encoder called on its own: the board, the two versions requested,
    \* the two results, and how far the calls have come.
    fvBoard, fvV1, fvV2, fvR1, fvR2, fvPc,
    \* tensorflow.Scorer: the session pool, the rotation index and its mutex
    \* (0 when free, else the caller holding it), and the model's version
    \* (s.version).
    sessionPool, sessionTurn, mu, sVersion,
    \* The callers of the Scorer: where each stands and the locals of its call.
    pc, call,
    \* The sessions the last NextSession calls returned, oldest first (at most
    \* one more than the pool holds), and whether a panic has ended the process.
    nsHist, crashed,
    \* ai.BatchScorerWrapper.BatchScore: the boards given, the loop index ii,
    \* scores, actionProbsBatch, the calls of s.Score made so far, and where
    \* the call stands.
    wBoards, wIdx, wScores, wApb, wCalls, wPc,
    \* New, Learn and Save of tensorflow.Scorer, called one after the other:
    \* len(s.sessionPool) and s.version, where the call stands, the call's
    \* arguments and locals, the loop variable step, the runs made on the
    \* sessions and the renames made by the call, the checkpoint files (0 when
    \* absent, else the generation of the weights they hold), and the saves
    \* made so far.
    lPool, lVersion, lPc, lOp, lStep, lRuns, lRenames, files, lSaves,
    \* The auto-batching dispatcher: the handoff queue, the target batch size,
    \* the batch being accumulated, the batches handed over (in order), and
    \* for every request where its caller stands, its result field and how
    \* often its completion signal fired; the order of submission and the
    \* batch-size messages sent.
    dQueue, dTarget, dAccum, dBatches, dState, dResult, dSignals, dOrder, dCtl,
    \* The registry as global state: the declaration of AllFeatures, AllFeatures
    \* and AllFeaturesDim as they stand, how far the package has come, and the
    \* last operation run on the registry.
    regDecl, regFeatures, regDim, regPc, regLast,
    \* The pool's weights: the weights in the checkpoint New finds (0: no
    \* checkpoint), the weights of each session, the rotation index, the calls
    \* of BatchScore answered so far, and how far the program has come.
    poolCkpt, poolWeights, poolTurn, poolScored, poolPc,
    \* The game driver: the player flags, the package's board, gameSeq, started,
    \* finished, nextIsAI and aiPlayers, the AI actions waiting for the main
    \* loop, the games started, how the program ended, and the last call.
    flagPlayers, gBoard, gameSeq, started, finished, nextIsAI, aiPlayers,
    gPending, gGames, gCrashed, gLast

fvVars == <<fvBoard, fvV1, fvV2, fvR1, fvR2, fvPc>>

scorerVars == <<sessionPool, sessionTurn, mu, sVersion, pc, call, nsHist, crashed>>

wVars == <<wBoards, wIdx, wScores, wApb, wCalls, wPc>>

driverVars == <<flagPlayers, gBoard, gameSeq, started, finished, nextIsAI, aiPlayers,
                gPending, gGames, gCrashed, gLast>>

poolVars == <<poolCkpt, poolWeights, poolTurn, poolScored, poolPc>>

regVars == <<regDecl, regFeatures, regDim, regPc, regLast>>

dVars == <<dQueue, dTarget, dAccum, dBatches, dState, dResult, dSignals, dOrder, dCtl>>

lVars == <<lPool, lVersion, lPc, lOp, lStep, lRuns, lRenames, files, lSaves>>

vars == <<fvBoard, fvV1, fvV2, fvR1, fvR2, fvPc,
          sessionPool, sessionTurn, mu, sVersion, pc, call, nsHist, crashed,
          wBoards, wIdx, wScores, wApb, wCalls, wPc,
          lPool, lVersion, lPc, lOp, lStep, lRuns, lRenames, files, lSaves,
          dQueue, dTarget, dAccum, dBatches, dState, dResult, dSignals, dOrder, dCtl,
          regDecl, regFeatures, regDim, regPc, regLast,
          poolCkpt, poolWeights, poolTurn, poolScored, poolPc,
          flagPlayers, gBoard, gameSeq, started, finished, nextIsAI, aiPlayers,
          gPending, gGames, gCrashed, gLast>>

\* What the steps of the encoder, of the Scorer, of the wrapper and of the
\* training calls leave alone.
restOfFV ==
    <<scorerVars, wVars, lVars, dVars, regVars, poolVars, driverVars>>

restOfScorer ==
    <<fvVars, wVars, lVars, dVars, regVars, poolVars, driverVars>>

restOfWrapper ==
    <<fvVars, scorerVars, lVars, dVars, regVars, poolVars, driverVars>>

restOfLearn ==
    <<fvVars, scorerVars, wVars, dVars, regVars, poolVars, driverVars>>

restOfDriver == <<fvVars, scorerVars, wVars, lVars, dVars, regVars, poolVars>>

restOfPool ==
    <<fvVars, scorerVars, wVars, lVars, dVars, regVars, driverVars>>

restOfReg ==
    <<fvVars, scorerVars, wVars, lVars, dVars, poolVars, driverVars>>

restOfDisp ==
    <<fvVars, scorerVars, wVars, lVars, regVars, poolVars, driverVars>>

(***************************************************************************)
(* Bounds of the model.                                                    *)
(***************************************************************************)
\* The versions requested from the encoder run from MaxUnder below the width of
\* the features of Version 0 (the narrowest registry there has been) to MaxOver
\* above AllFeaturesDim.
MaxUnder == 0

MaxOver == 1

\* The number of goroutines calling the Scorer.
NumCallers == 2

\* The largest session pool.
MaxPool == 2

\* The longest board list given to BatchScorerWrapper.BatchScore.
MaxBatch == 2

\* The scoring requests submitted to the dispatcher, the largest target
\* batch size, and the most batch-size messages sent.
NumRequests == 3

MaxTarget == 2

MaxCtl == 1

\* The most rows of action labels given to Learn, the most entries of a row,
\* the most training steps asked for, and the most saves made.
MaxRows == 2

MaxRowLen == 2

MaxSteps == 2

MaxSaves == 2

\* The calls of BatchScore followed after New.
MaxScored == 3

\* --max_moves, and the games started.
MaxMovesFlag == 3

MaxGames == 2

(***************************************************************************)
(* package state (the rules engine): what the encoder reads of a board.    *)
(***************************************************************************)
NUM_PIECE_TYPES == 5

ANT == 1

BEETLE == 2

GRASSHOPPER == 3

QUEEN == 4

SPIDER == 5

NO_PIECE == 0

TOTAL_PIECES_PER_PLAYER == 11

Pieces == <<ANT, BEETLE, GRASSHOPPER, QUEEN, SPIDER>>

Players == {0, 1}

OpponentPlayer(b) == 1 - b.NextPlayer

Available(b, player, piece) == b.Avail[player][piece]

\* The six cells around pos (axial coordinates).
Neighbours(pos) ==
    << <<pos[1] + 1, pos[2]>>, <<pos[1] - 1, pos[2]>>,
       <<pos[1], pos[2] + 1>>, <<pos[1], pos[2] - 1>>,
       <<pos[1] + 1, pos[2] - 1>>, <<pos[1] - 1, pos[2] + 1>> >>

OccupiedNeighbours(b, pos) ==
    SelectSeq(Neighbours(pos), LAMBDA p : p \in DOMAIN b.Owner)

\* The player owning the top piece at pos; the zero player on an empty cell.
PieceAt(b, pos) == IF pos \in DOMAIN b.Owner THEN b.Owner[pos] ELSE 0

NumActions(b) == Len(b.PlayersActions[b.NextPlayer])

IsFinished(b) == b.Wins[0] \/ b.Wins[1] \/ b.MoveNumber > b.MaxMoves

Draw(b) == b.MoveNumber > b.MaxMoves \/ (b.Wins[0] /\ b.Wins[1])

Place(piece, target) ==
    [Move |-> FALSE, Piece |-> piece, SourcePos |-> <<0, 0>>, TargetPos |-> target]

Move(piece, source, target) ==
    [Move |-> TRUE, Piece |-> piece, SourcePos |-> source, TargetPos |-> target]

\* The board before the first move: nothing placed, five placements open.
StartBoard ==
    [NextPlayer |-> 0,
     Avail |-> [p \in Players |-> <<3, 2, 3, 1, 2>>],
     NumSurroundingQueen |-> [p \in Players |-> 0],
     PlayersActions |-> [p \in Players |->
         <<Place(ANT, <<0, 0>>), Place(BEETLE, <<0, 0>>), Place(GRASSHOPPER, <<0, 0>>),
           Place(QUEEN, <<0, 0>>), Place(SPIDER, <<0, 0>>)>>],
     QueenPos |-> [p \in Players |-> <<0, 0>>],
     Owner |-> [pos \in {} |-> 0],
     NumPiecesOnBoard |-> [p \in Players |-> 0],
     Singles |-> [p \in Players |-> 0],
     MaxMoves |-> 10,
     MoveNumber |-> 1,
     Wins |-> [p \in Players |-> FALSE]]

\* Both queens placed side by side, one more piece each; player 0 to move.
MidBoard ==
    [NextPlayer |-> 0,
     Avail |-> [p \in Players |-> IF p = 0 THEN <<2, 2, 3, 0, 2>> ELSE <<3, 1, 3, 0, 2>>],
     NumSurroundingQueen |-> [p \in Players |-> 2],
     PlayersActions |-> [p \in Players |->
         IF p = 0
         THEN <<Move(ANT, <<-1, 0>>, <<1, -1>>), Move(ANT, <<-1, 0>>, <<0, 1>>)>>
         ELSE <<Move(BEETLE, <<2, 0>>, <<1, -1>>), Place(SPIDER, <<3, -1>>),
                Place(ANT, <<3, -1>>)>>],
     QueenPos |-> [p \in Players |-> IF p = 0 THEN <<0, 0>> ELSE <<1, 0>>],
     Owner |-> [pos \in {<<0, 0>>, <<1, 0>>, <<-1, 0>>, <<2, 0>>} |->
                  IF pos \in {<<0, 0>>, <<-1, 0>>} THEN 0 ELSE 1],
     NumPiecesOnBoard |-> [p \in Players |-> 2],
     Singles |-> [p \in Players |-> 1],
     MaxMoves |-> 10,
     MoveNumber |-> 5,
     Wins |-> [p \in Players |-> FALSE]]

\* MidBoard with player 1 to move.
MidBoardP1 == [MidBoard EXCEPT !.NextPlayer = 1, !.MoveNumber = 6]

\* Finished: the side to move has won.
WonBoard ==
    [MidBoard EXCEPT !.Wins = [p \in Players |-> p = 0],
                     !.NumSurroundingQueen = [p \in Players |-> IF p = 1 THEN 6 ELSE 2],
                     !.PlayersActions = [p \in Players |-> <<>>]]

\* Finished: the opponent has won.
LostBoard ==
    [MidBoard EXCEPT !.Wins = [p \in Players |-> p = 1],
                     !.NumSurroundingQueen = [p \in Players |-> IF p = 0 THEN 6 ELSE 2],
                     !.PlayersActions = [p \in Players |-> <<>>]]

\* Finished: the move limit is exceeded; the action lists are still those of MidBoard.
DrawBoard == [MidBoard EXCEPT !.MoveNumber = 11]

\* Finished: both queens are surrounded.
BothWinBoard ==
    [MidBoard EXCEPT !.Wins = [p \in Players |-> TRUE],
                     !.NumSurroundingQueen = [p \in Players |-> 6],
                     !.PlayersActions = [p \in Players |-> <<>>]]

\* Not finished, player 1 to move with no legal action; no queen placed yet.
PassBoard ==
    [StartBoard EXCEPT !.NextPlayer = 1,
                       !.MoveNumber = 2,
                       !.PlayersActions = [p \in Players |-> IF p = 1 THEN <<>> ELSE @[p]]]

\* Player 0 to move with its queen placed; player 1 has two pieces on the board
\* and its queen still in hand, so QueenPos[1] is the zero position, which its
\* ant stands on; the ant of player 0 at the end of the line can move next to it.
QueenlessBoard ==
    [NextPlayer |-> 0,
     Avail |-> [p \in Players |-> IF p = 0 THEN <<2, 2, 3, 0, 2>> ELSE <<2, 1, 3, 1, 2>>],
     NumSurroundingQueen |-> [p \in Players |-> IF p = 0 THEN 2 ELSE 0],
     PlayersActions |-> [p \in Players |->
         IF p = 0
         THEN <<Move(ANT, <<-3, 0>>, <<1, 0>>), Move(ANT, <<-3, 0>>, <<0, 1>>),
                Place(SPIDER, <<-3, 1>>)>>
         ELSE <<Place(QUEEN, <<1, 0>>), Place(ANT, <<1, 0>>)>>],
     QueenPos |-> [p \in Players |-> IF p = 0 THEN <<-2, 0>> ELSE <<0, 0>>],
     Owner |-> [pos \in {<<-3, 0>>, <<-2, 0>>, <<-1, 0>>, <<0, 0>>} |->
                  IF pos \in {<<-3, 0>>, <<-2, 0>>} THEN 0 ELSE 1],
     NumPiecesOnBoard |-> [p \in Players |-> 2],
     Singles |-> [p \in Players |-> 1],
     MaxMoves |-> 10,
     MoveNumber |-> 5,
     Wins |-> [p \in Players |-> FALSE]]

Boards ==
    <<StartBoard, MidBoard, MidBoardP1, WonBoard, LostBoard, DrawBoard,
      BothWinBoard, PassBoard, QueenlessBoard>>

BoardIds == 1..Len(Boards)

(***************************************************************************)
(* package ai: the feature registry.                                       *)
(***************************************************************************)
F_NUM_OFFBOARD == 0

F_OPP_NUM_OFFBOARD == 1

F_NUM_SURROUNDING_QUEEN == 2

F_OPP_NUM_SURROUNDING_QUEEN == 3

F_NUM_CAN_MOVE == 4

F_OPP_NUM_CAN_MOVE == 5

F_NUM_THREATENING_MOVES == 6

F_OPP_NUM_THREATENING_MOVES == 7

F_MOVES_TO_DRAW == 8

F_NUM_SINGLE == 9

F_QUEEN_COVERED == 10

F_NUM_FEATURES == 11

FeatureDef(fid, name, dim, setter, version) ==
    [FId |-> fid, Name |-> name, Dim |-> dim, VecIndex |-> 0,
     Setter |-> setter, Version |-> version]

\* Mutation of AllFeaturesDecl: the last feature declared with a Version that is
\* not the width of the registry it completed.
AllFeaturesDeclWrongVersion ==
    <<FeatureDef(F_NUM_OFFBOARD, "NumOffboard", NUM_PIECE_TYPES, "fNumOffBoard", 0),
      FeatureDef(F_OPP_NUM_OFFBOARD, "OppNumOffboard", NUM_PIECE_TYPES, "fNumOffBoard", 0),
      FeatureDef(F_NUM_SURROUNDING_QUEEN, "NumSurroundingQueen", 1, "fNumSurroundingQueen", 0),
      FeatureDef(F_OPP_NUM_SURROUNDING_QUEEN, "OppNumSurroundingQueen", 1,
                 "fNumSurroundingQueen", 0),
      FeatureDef(F_NUM_CAN_MOVE, "NumCanMove", 2 * NUM_PIECE_TYPES, "fNumCanMove", 0),
      FeatureDef(F_OPP_NUM_CAN_MOVE, "OppNumCanMove", 2 * NUM_PIECE_TYPES, "fNumCanMove", 0),
      FeatureDef(F_NUM_THREATENING_MOVES, "NumThreateningMoves", 2, "fNumThreateningMoves", 0),
      FeatureDef(F_OPP_NUM_THREATENING_MOVES, "OppNumThreateningMoves", 2,
                 "fNumThreateningMoves", 39),
      FeatureDef(F_MOVES_TO_DRAW, "MovesToDraw", 1, "fNumToDraw", 0),
      FeatureDef(F_NUM_SINGLE, "NumSingle", 2, "fNumSingle", 0),
      FeatureDef(F_QUEEN_COVERED, "QueenIsCovered", 2, "fQueenIsCovered", 40)>>

\* The registry as declared, before package initialization sets VecIndex.
AllFeaturesDecl ==
    <<FeatureDef(F_NUM_OFFBOARD, "NumOffboard", NUM_PIECE_TYPES, "fNumOffBoard", 0),
      FeatureDef(F_OPP_NUM_OFFBOARD, "OppNumOffboard", NUM_PIECE_TYPES, "fNumOffBoard", 0),
      FeatureDef(F_NUM_SURROUNDING_QUEEN, "NumSurroundingQueen", 1, "fNumSurroundingQueen", 0),
      FeatureDef(F_OPP_NUM_SURROUNDING_QUEEN, "OppNumSurroundingQueen", 1,
                 "fNumSurroundingQueen", 0),
      FeatureDef(F_NUM_CAN_MOVE, "NumCanMove", 2 * NUM_PIECE_TYPES, "fNumCanMove", 0),
      FeatureDef(F_OPP_NUM_CAN_MOVE, "OppNumCanMove", 2 * NUM_PIECE_TYPES, "fNumCanMove", 0),
      FeatureDef(F_NUM_THREATENING_MOVES, "NumThreateningMoves", 2, "fNumThreateningMoves", 0),
      FeatureDef(F_OPP_NUM_THREATENING_MOVES, "OppNumThreateningMoves", 2,
                 "fNumThreateningMoves", 39),
      FeatureDef(F_MOVES_TO_DRAW, "MovesToDraw", 1, "fNumToDraw", 0),
      FeatureDef(F_NUM_SINGLE, "NumSingle", 2, "fNumSingle", 0),
      FeatureDef(F_QUEEN_COVERED, "QueenIsCovered", 2, "fQueenIsCovered", 41)>>

\* func init(): sets every VecIndex and AllFeaturesDim; fatal on an FId out of place.
\* Mutation of InitFeatures: VecIndex set after AllFeaturesDim is advanced.
RECURSIVE InitFeaturesIndexLate(_, _, _)
InitFeaturesIndexLate(feats, ii, dim) ==
    IF ii > Len(feats)
    THEN [fatal |-> FALSE, features |-> feats, dim |-> dim]
    ELSE IF feats[ii].FId # ii - 1
         THEN [fatal |-> TRUE, features |-> feats, dim |-> dim]
         ELSE InitFeaturesIndexLate([feats EXCEPT ![ii].VecIndex = dim + feats[ii].Dim],
                                    ii + 1, dim + feats[ii].Dim)

RECURSIVE InitFeatures(_, _, _)
InitFeatures(feats, ii, dim) ==
    IF ii > Len(feats)
    THEN [fatal |-> FALSE, features |-> feats, dim |-> dim]
    ELSE IF feats[ii].FId # ii - 1
         THEN [fatal |-> TRUE, features |-> feats, dim |-> dim]
         ELSE InitFeatures([feats EXCEPT ![ii].VecIndex = dim], ii + 1, dim + feats[ii].Dim)

Registry == InitFeatures(AllFeaturesDecl, 1, 0)

AllFeatures == Registry.features

AllFeaturesDim == Registry.dim

(***************************************************************************)
(* package ai: the feature setters.  f is the full-width buffer; Go index  *)
(* i is position i + 1 of the sequence.                                    *)
(***************************************************************************)
PosInSlice(slice, p) == \E i \in 1..Len(slice) : slice[i] = p

\* f with f[idx] = val for every (idx, val) of the function writes (Go indices).
Store(f, writes) ==
    [k \in 1..Len(f) |-> IF (k - 1) \in DOMAIN writes THEN writes[k - 1] ELSE f[k]]

fNumOffBoard(b, def, f) ==
    LET idx == def.VecIndex
        player == IF def.FId = F_OPP_NUM_OFFBOARD THEN OpponentPlayer(b) ELSE b.NextPlayer
    IN  Store(f, [i \in {idx + Pieces[k] - 1 : k \in 1..Len(Pieces)} |->
                    Available(b, player, i - idx + 1)])

fNumSurroundingQueen(b, def, f) ==
    LET idx == def.VecIndex
        player == IF def.FId = F_OPP_NUM_SURROUNDING_QUEEN
                  THEN OpponentPlayer(b) ELSE b.NextPlayer
    IN  Store(f, [i \in {idx} |-> b.NumSurroundingQueen[player]])

\* The loop over the actions of fNumCanMove: counts per piece of the distinct
\* source positions that can move, and of those not next to the opponent's queen.
RECURSIVE CanMoveLoop(_, _, _, _)
CanMoveLoop(actions, i, queenNeighbours, acc) ==
    IF i > Len(actions) THEN acc
    ELSE LET action == actions[i]
         IN  IF action.Move /\ action.SourcePos \notin acc.posVisited
             THEN CanMoveLoop(actions, i + 1, queenNeighbours,
                      [posVisited |-> acc.posVisited \cup {action.SourcePos},
                       counts |-> [acc.counts EXCEPT ![action.Piece] = @ + 1],
                       countsNotQueenNeighbours |->
                           IF ~PosInSlice(queenNeighbours, action.SourcePos)
                           THEN [acc.countsNotQueenNeighbours EXCEPT ![action.Piece] = @ + 1]
                           ELSE acc.countsNotQueenNeighbours])
             ELSE CanMoveLoop(actions, i + 1, queenNeighbours, acc)

fNumCanMove(b, def, f) ==
    LET idx == def.VecIndex
        swap == def.FId = F_OPP_NUM_CAN_MOVE
        player == IF swap THEN OpponentPlayer(b) ELSE b.NextPlayer
        opponent == IF swap THEN b.NextPlayer ELSE OpponentPlayer(b)
        actions == b.PlayersActions[player]
        queenNeighbours == IF Available(b, opponent, QUEEN) = 0
                           THEN OccupiedNeighbours(b, b.QueenPos[opponent])
                           ELSE <<>>
        zero == [p \in 1..NUM_PIECE_TYPES |-> 0]
        r == CanMoveLoop(actions, 1, queenNeighbours,
                 [posVisited |-> {}, counts |-> zero, countsNotQueenNeighbours |-> zero])
    IN  Store(f, [i \in idx..(idx + 2 * Len(Pieces) - 1) |->
                    IF (i - idx) % 2 = 0
                    THEN r.counts[(i - idx) \div 2 + 1]
                    ELSE r.countsNotQueenNeighbours[(i - idx) \div 2 + 1]])

\* The loop over the actions of fNumThreateningMoves.
RECURSIVE ThreateningLoop(_, _, _, _)
ThreateningLoop(actions, i, freeOppQueenNeighbors, acc) ==
    IF i > Len(actions) THEN acc
    ELSE LET action == actions[i]
         IN  IF ~PosInSlice(freeOppQueenNeighbors, action.TargetPos)
                \/ PosInSlice(freeOppQueenNeighbors, action.SourcePos)
             THEN ThreateningLoop(actions, i + 1, freeOppQueenNeighbors, acc)
             ELSE IF ~action.Move
             THEN ThreateningLoop(actions, i + 1, freeOppQueenNeighbors,
                      [acc EXCEPT !.canPlaceAroundQueen = TRUE])
             ELSE LET newPiece == action.SourcePos \notin acc.usedPieces
                      newPos == ~PosInSlice(acc.usedPositions, action.TargetPos)
                  IN  ThreateningLoop(actions, i + 1, freeOppQueenNeighbors,
                          [usedPieces |-> acc.usedPieces \cup {action.SourcePos},
                           usedPositions |-> IF newPos
                                             THEN Append(acc.usedPositions, action.TargetPos)
                                             ELSE acc.usedPositions,
                           f0 |-> IF newPiece THEN acc.f0 + 1 ELSE acc.f0,
                           f1 |-> IF newPos THEN acc.f1 + 1 ELSE acc.f1,
                           canPlaceAroundQueen |-> acc.canPlaceAroundQueen])

\* Mutation of QueenNotSetUp: the queen taken to be on the board.
QueenNotSetUpNever(b, player) == FALSE

\* b.Available(opponent, QUEEN) > 0: the queen is not yet set up.
QueenNotSetUp(b, player) == Available(b, player, QUEEN) > 0

fNumThreateningMoves(b, def, f) ==
    LET idx == def.VecIndex
        \* The source compares with F_OPP_NUM_CAN_MOVE here.
        swap == def.FId = F_OPP_NUM_CAN_MOVE
        player == IF swap THEN OpponentPlayer(b) ELSE b.NextPlayer
        opponent == IF swap THEN b.NextPlayer ELSE OpponentPlayer(b)
        actions == b.PlayersActions[player]
        r == ThreateningLoop(actions, 1, Neighbours(b.QueenPos[opponent]),
                 [usedPieces |-> {}, usedPositions |-> <<>>, f0 |-> 0, f1 |-> 0,
                  canPlaceAroundQueen |-> FALSE])
    IN  IF QueenNotSetUp(b, opponent)
        THEN Store(f, [i \in {idx, idx + 1} |-> 0])
        ELSE Store(f, [i \in {idx, idx + 1} |->
                 IF i = idx
                 THEN r.f0 + (IF r.canPlaceAroundQueen
                              THEN TOTAL_PIECES_PER_PLAYER - b.NumPiecesOnBoard[player]
                              ELSE 0)
                 ELSE r.f1])

fNumToDraw(b, def, f) ==
    Store(f, [i \in {def.VecIndex} |-> b.MaxMoves - b.MoveNumber + 1])

fNumSingle(b, def, f) ==
    LET idx == def.VecIndex
    IN  Store(f, [i \in {idx, idx + 1} |->
                    IF i = idx THEN b.Singles[b.NextPlayer]
                    ELSE b.Singles[OpponentPlayer(b)]])

fQueenIsCovered(b, def, f) ==
    LET idx == def.VecIndex
        playerAt(ii) == IF ii = 0 THEN b.NextPlayer ELSE OpponentPlayer(b)
    IN  Store(f, [i \in {idx, idx + 1} |->
                    IF PieceAt(b, b.QueenPos[playerAt(i - idx)]) # playerAt(i - idx)
                    THEN 1 ELSE 0])

\* featDef.Setter(b, featDef, f)
Setter(b, def, f) ==
    CASE def.Setter = "fNumOffBoard" -> fNumOffBoard(b, def, f)
      [] def.Setter = "fNumSurroundingQueen" -> fNumSurroundingQueen(b, def, f)
      [] def.Setter = "fNumCanMove" -> fNumCanMove(b, def, f)
      [] def.Setter = "fNumThreateningMoves" -> fNumThreateningMoves(b, def, f)
      [] def.Setter = "fNumToDraw" -> fNumToDraw(b, def, f)
      [] def.Setter = "fNumSingle" -> fNumSingle(b, def, f)
      [] def.Setter = "fQueenIsCovered" -> fQueenIsCovered(b, def, f)

(***************************************************************************)
(* package ai: FeatureVector(b, version).                                  *)
(***************************************************************************)
\* Mutation of Included: the comparison made strict.
IncludedStrict(featDef, version) == featDef.Version < version

\* Whether the feature is part of the requested version.
Included(featDef, version) == featDef.Version <= version

\* First loop: every included feature's setter writes into the full-width buffer.
\* Returns the buffer and the FIds whose setter ran, in order.
RECURSIVE SetLoop(_, _, _, _)
SetLoop(b, version, ii, acc) ==
    IF ii > Len(AllFeatures) THEN acc
    ELSE LET featDef == AllFeatures[ii]
         IN  IF Included(featDef, version)
             THEN SetLoop(b, version, ii + 1,
                      [f |-> Setter(b, featDef, acc.f),
                       setters |-> Append(acc.setters, featDef.FId)])
             ELSE SetLoop(b, version, ii + 1, acc)

\* Second loop: the slices of the included features, appended in registry order.
RECURSIVE FilterLoop(_, _, _, _)
FilterLoop(f, version, ii, newF) ==
    IF ii > Len(AllFeatures) THEN newF
    ELSE LET featDef == AllFeatures[ii]
         IN  IF Included(featDef, version)
             THEN FilterLoop(f, version, ii + 1,
                      newF \o SubSeq(f, featDef.VecIndex + 1, featDef.VecIndex + featDef.Dim))
             ELSE FilterLoop(f, version, ii + 1, newF)

\* Mutation of Compact: the first version elements, whatever feature they belong to.
CompactTruncate(f, version) == SubSeq(f, 1, version)

\* The compaction applied when version # AllFeaturesDim.
Compact(f, version) == FilterLoop(f, version, 1, <<>>)

\* Mutation of VersionTooLarge: the bound off by one.
VersionTooLargeOffByOne(version) == version > AllFeaturesDim + 1

\* The guard of the panic: more features requested than the registry knows.
VersionTooLarge(version) == version > AllFeaturesDim

\* The result of a call: panicked, or the vector f; setters are the setters run.
FeatureVector(b, version) ==
    IF VersionTooLarge(version)
    THEN [panicked |-> TRUE, f |-> <<>>, setters |-> <<>>]
    ELSE LET r == SetLoop(b, version, 1,
                      [f |-> [k \in 1..AllFeaturesDim |-> 0], setters |-> <<>>])
         IN  [panicked |-> FALSE,
              f |-> IF version # AllFeaturesDim THEN Compact(r.f, version) ELSE r.f,
              setters |-> r.setters]

(***************************************************************************)
(* The encoder called twice on one board, with versions fvV1 and fvV2.     *)
(***************************************************************************)
\* The width of the registry before any feature with a Version was added.
BaseWidth == Len(Compact([k \in 1..AllFeaturesDim |-> 0], 0))

Versions == (BaseWidth - MaxUnder)..(AllFeaturesDim + MaxOver)

NoResult == [panicked |-> FALSE, f |-> <<>>, setters |-> <<>>]

\* The game driver while something else is exercised.
DriverParked ==
    /\ flagPlayers = <<>>
    /\ gBoard = [game |-> 0, moves |-> <<>>]
    /\ gameSeq = <<>>
    /\ started = FALSE
    /\ finished = FALSE
    /\ nextIsAI = FALSE
    /\ aiPlayers = <<>>
    /\ gPending = 0
    /\ gGames = 0
    /\ gCrashed = "parked"
    /\ gLast = [op |-> "none", acted |-> FALSE, before |-> [game |-> 0, moves |-> <<>>]]

\* The pool's weights while something else is exercised.
PoolParked ==
    /\ poolCkpt = 0
    /\ poolWeights = <<>>
    /\ poolTurn = 0
    /\ poolScored = <<>>
    /\ poolPc = "parked"

\* The registry variables while something else is exercised.
RegParked ==
    /\ regDecl = <<>>
    /\ regFeatures = <<>>
    /\ regDim = 0
    /\ regPc = "parked"
    /\ regLast = [op |-> "none", board |-> 0, version |-> 0, out |-> <<>>]

\* The dispatcher's variables while something else is exercised.
DispParked ==
    /\ dQueue = <<>>
    /\ dTarget = 0
    /\ dAccum = [target |-> 0, reqs |-> <<>>]
    /\ dBatches = <<>>
    /\ dState = <<>>
    /\ dResult = <<>>
    /\ dSignals = <<>>
    /\ dOrder = <<>>
    /\ dCtl = 0

\* The variables of New, Learn and Save while something else is exercised.
LearnParked ==
    /\ lPool = 0
    /\ lVersion = 0
    /\ lPc = "parked"
    /\ lOp = [op |-> "none", boards |-> <<>>, actionsLabels |-> <<>>, steps |-> 0,
              outcome |-> "none",
              before |-> [index |-> 0, data |-> 0, indexBak |-> 0, dataBak |-> 0]]
    /\ lStep = 0
    /\ lRuns = <<>>
    /\ lRenames = <<>>
    /\ files = [index |-> 0, data |-> 0, indexBak |-> 0, dataBak |-> 0]
    /\ lSaves = 0

\* The wrapper's variables while something else is exercised.
WrapperParked ==
    /\ wBoards = <<>>
    /\ wIdx = 0
    /\ wScores = <<>>
    /\ wApb = [isNil |-> TRUE, elems |-> <<>>]
    /\ wCalls = <<>>
    /\ wPc = "parked"

\* The Scorer's variables while something else is exercised.
ScorerParked ==
    /\ sessionPool = <<>>
    /\ sessionTurn = 0
    /\ mu = 0
    /\ sVersion = 0
    /\ pc = <<>>
    /\ call = <<>>
    /\ nsHist = <<>>
    /\ crashed = FALSE

FVInit ==
    /\ fvBoard \in BoardIds
    /\ fvV1 \in Versions
    /\ fvV2 \in Versions
    /\ fvR1 = NoResult
    /\ fvR2 = NoResult
    /\ fvPc = "start"
    /\ ScorerParked
    /\ WrapperParked
    /\ LearnParked
    /\ DispParked
    /\ RegParked
    /\ PoolParked
    /\ DriverParked

FVCallFirst ==
    /\ fvPc = "start"
    /\ fvR1' = FeatureVector(Boards[fvBoard], fvV1)
    /\ fvPc' = "first"
    /\ UNCHANGED <<fvBoard, fvV1, fvV2, fvR2>>
    /\ UNCHANGED restOfFV

FVCallSecond ==
    /\ fvPc = "first"
    /\ fvR2' = FeatureVector(Boards[fvBoard], fvV2)
    /\ fvPc' = "second"
    /\ UNCHANGED <<fvBoard, fvV1, fvV2, fvR1>>
    /\ UNCHANGED restOfFV

FVNext == FVCallFirst \/ FVCallSecond

SpecFV == FVInit /\ [][FVNext]_vars

(***************************************************************************)
(* package ai: EndGameScore.                                               *)
(***************************************************************************)
EndGameScore(b) ==
    IF ~IsFinished(b) THEN [isEnd |-> FALSE, score |-> 0]
    ELSE IF Draw(b) THEN [isEnd |-> TRUE, score |-> 0]
    ELSE IF b.Wins[b.NextPlayer] THEN [isEnd |-> TRUE, score |-> 10]
    ELSE [isEnd |-> TRUE, score |-> -10]

(***************************************************************************)
(* package tensorflow: the Scorer.  A Go slice is a record: nil, or its    *)
(* elements.                                                               *)
(***************************************************************************)
NilSlice == [isNil |-> TRUE, elems |-> <<>>]

Slice(elems) == [isNil |-> FALSE, elems |-> elems]

Callers == 1..NumCallers

\* len(board.Derived.Actions): the legal actions of the side to move.
DerivedActions(b) == b.PlayersActions[b.NextPlayer]

\* buildFeeds, first loop: the legal actions of all boards of the batch.
RECURSIVE TotalNumActions(_)
TotalNumActions(boards) ==
    IF boards = <<>> THEN 0
    ELSE Len(DerivedActions(Boards[Head(boards)])) + TotalNumActions(Tail(boards))

NoFeeds ==
    [boardFeatures |-> <<>>, actionsBoardIndices |-> <<>>, actionsFeatures |-> <<>>,
     actionsSourceCenter |-> <<>>, actionsSourceNeighbourhood |-> <<>>,
     actionsTargetCenter |-> <<>>, actionsTargetNeighbourhood |-> <<>>]

\* ai.NewActionFeatures(board, action, version): the features of one action.
\* A feature of a position is written as the position it encodes, the center
\* as the position itself and the six sections as the position under a tag.
NewActionFeatures(board, action, version) ==
    [Move |-> IF action.Move THEN 1 ELSE 0,
     SourceFeatures |-> [Center |-> action.SourcePos,
                         Sections |-> <<"sections", action.SourcePos>>],
     TargetFeatures |-> [Center |-> action.TargetPos,
                         Sections |-> <<"sections", action.TargetPos>>]]

\* Mutation of OwningBoard: rows tagged from 1, not from 0.
OwningBoardOneBased(boardIdx) == boardIdx + 1

\* int64(boardIdx): the tag of the rows of the board at boardIdx.
OwningBoard(boardIdx) == boardIdx

\* buildFeeds, inner loop: the rows of the legal actions of one board, each
\* tagged with the index of the board in the batch.
BoardRows(boardIdx, board, ver) ==
    LET actions == DerivedActions(board)
    IN  [k \in 1..Len(actions) |->
            LET af == NewActionFeatures(board, actions[k], ver)
            IN  [boardIndex |-> OwningBoard(boardIdx),
                 features |-> <<af.Move>>,
                 sourceCenter |-> af.SourceFeatures.Center,
                 sourceNeighbourhood |-> af.SourceFeatures.Sections,
                 targetCenter |-> af.TargetFeatures.Center,
                 targetNeighbourhood |-> af.TargetFeatures.Sections]]

\* buildFeeds, one round of the outer loop: the feature vector of the board
\* stored and the rows of its actions appended to the six action slices.
AppendBoard(acc, boardIdx, board, ver) ==
    LET fv == FeatureVector(board, ver)
        rows == BoardRows(boardIdx, board, ver)
        n == Len(rows)
    IN  IF fv.panicked THEN [acc EXCEPT !.panicked = TRUE]
        ELSE [panicked |-> FALSE,
              feeds |->
                 [boardFeatures |-> Append(acc.feeds.boardFeatures, fv.f),
                  actionsBoardIndices |-> acc.feeds.actionsBoardIndices
                      \o [k \in 1..n |-> rows[k].boardIndex],
                  actionsFeatures |-> acc.feeds.actionsFeatures
                      \o [k \in 1..n |-> rows[k].features],
                  actionsSourceCenter |-> acc.feeds.actionsSourceCenter
                      \o [k \in 1..n |-> rows[k].sourceCenter],
                  actionsSourceNeighbourhood |-> acc.feeds.actionsSourceNeighbourhood
                      \o [k \in 1..n |-> rows[k].sourceNeighbourhood],
                  actionsTargetCenter |-> acc.feeds.actionsTargetCenter
                      \o [k \in 1..n |-> rows[k].targetCenter],
                  actionsTargetNeighbourhood |-> acc.feeds.actionsTargetNeighbourhood
                      \o [k \in 1..n |-> rows[k].targetNeighbourhood]]]

\* buildFeeds, second loop: over the boards of the batch, in order.
RECURSIVE BuildLoop(_, _, _, _)
BuildLoop(boards, ver, boardIdx, acc) ==
    IF acc.panicked \/ boardIdx >= Len(boards) THEN acc
    ELSE BuildLoop(boards, ver, boardIdx + 1,
                   AppendBoard(acc, boardIdx, Boards[boards[boardIdx + 1]], ver))

buildFeeds(boards, ver) ==
    LET r == BuildLoop(boards, ver, 0, [panicked |-> FALSE, feeds |-> NoFeeds])
    IN  [panicked |-> r.panicked, feeds |-> r.feeds,
         totalNumActions |-> TotalNumActions(boards)]

\* Mutation of Fetches: the action predictions fetched whatever the batch holds.
FetchesAlways(totalNumActions) == <<"BoardPredictions", "ActionsPredictions">>

\* The outputs BatchScore asks the session for.
Fetches(totalNumActions) ==
    <<"BoardPredictions">>
    \o (IF totalNumActions > 0 THEN <<"ActionsPredictions">> ELSE <<>>)

\* What sess.Run gives back: an error, or one tensor per fetch.  The adapter
\* reads only their lengths, so the i-th value prediction is 100 + i and the
\* j-th action probability is j.
RunResult(err, nValues, nProbs) ==
    [err |-> err,
     values |-> [i \in 1..nValues |-> 100 + i],
     probs |-> [j \in 1..nProbs |-> j]]

NoRunResult == RunResult(FALSE, 0, 0)

\* The outcomes of one Run for a batch of n boards with t legal actions: an
\* error, the right cardinalities, or one of them off by one.
RunOutcomes(n, t, fetches) ==
    LET np(k) == IF Len(fetches) > 1 THEN k ELSE 0
    IN  {RunResult(TRUE, 0, 0), RunResult(FALSE, n, np(t)),
         RunResult(FALSE, n - 1, np(t)), RunResult(FALSE, n + 1, np(t))}
        \cup (IF Len(fetches) > 1
              THEN {RunResult(FALSE, n, t - 1), RunResult(FALSE, n, t + 1)}
              ELSE {})

\* Mutation of ScoresMatch: the number of value predictions not checked.
ScoresMatchUnchecked(scores, boards) == TRUE

\* The check of the value predictions against the batch.
ScoresMatch(scores, boards) == Len(scores) = Len(boards)

\* The check of the action probabilities against the batch (made twice in the
\* source, with two messages).
ProbsMatch(allActionsProbs, totalNumActions) == Len(allActionsProbs) = totalNumActions

\* Mutation of SliceProbs: the stream is not advanced past a board's segment.
RECURSIVE SliceProbsNoAdvance(_, _)
SliceProbsNoAdvance(boards, allActionsProbs) ==
    IF boards = <<>> THEN <<>>
    ELSE <<Slice(SubSeq(allActionsProbs, 1, NumActions(Boards[Head(boards)])))>>
         \o SliceProbsNoAdvance(Tail(boards), allActionsProbs)

\* The loop cutting the flat stream into one segment per board.
RECURSIVE SliceProbs(_, _)
SliceProbs(boards, allActionsProbs) ==
    IF boards = <<>> THEN <<>>
    ELSE LET board == Boards[Head(boards)]
         IN  <<Slice(SubSeq(allActionsProbs, 1, NumActions(board)))>>
             \o SliceProbs(Tail(boards),
                    SubSeq(allActionsProbs, Len(DerivedActions(board)) + 1,
                           Len(allActionsProbs)))

\* BatchScore after sess.Run returned results: panicked, or scores and
\* actionProbsBatch.
CopyResults(boards, totalNumActions, results) ==
    IF results.err \/ ~ScoresMatch(results.values, boards)
    THEN [panicked |-> TRUE, scores |-> <<>>, actionProbsBatch |-> <<>>]
    ELSE IF totalNumActions > 0
    THEN IF ~ProbsMatch(results.probs, totalNumActions)
         THEN [panicked |-> TRUE, scores |-> <<>>, actionProbsBatch |-> <<>>]
         ELSE [panicked |-> FALSE, scores |-> results.values,
               actionProbsBatch |-> SliceProbs(boards, results.probs)]
    ELSE [panicked |-> FALSE, scores |-> results.values,
          actionProbsBatch |-> [i \in 1..Len(boards) |-> NilSlice]]

\* Mutation of Locked: the mutex never holds anybody back.
LockedNever == FALSE

\* s.mu is held.
Locked == mu # 0

\* The rotation of NextSession.
NextTurn(turn, poolSize) == (turn + 1) % poolSize

NoCall ==
    [op |-> "none", boards |-> <<>>, feeds |-> NoFeeds, totalNumActions |-> 0,
     fetches |-> <<>>, sess |-> 0, runs |-> <<>>, results |-> NoRunResult,
     scores |-> <<>>, actionProbsBatch |-> <<>>]

\* The board lists given to BatchScore, with legal-action counts (), (2, 0, 5)
\* and (0, 0).
BatchInputs == {<<>>, <<2, 8, 1>>, <<8, 4>>}

\* The boards given to Score, all finished: won and lost by the side to move
\* with no legal action left, and drawn on the move limit with two left.
ScoreInputs == {4, 5, 6}

\* The versions of the loaded model: that of the registry, and one the registry
\* does not know.
ScorerVersions == {AllFeaturesDim, AllFeaturesDim + 1}

\* buildFeeds of every input at every version, evaluated once.
BuiltFeeds ==
    [boards \in BatchInputs \cup {<<b>> : b \in ScoreInputs} |->
        [ver \in ScorerVersions |-> buildFeeds(boards, ver)]]

\* The encoder's variables while something else is exercised.
FVParked ==
    /\ fvBoard = 1
    /\ fvV1 = 0
    /\ fvV2 = 0
    /\ fvR1 = NoResult
    /\ fvR2 = NoResult
    /\ fvPc = "parked"

\* After New: a pool of sessions 1..P, the rotation at 0.
Init ==
    /\ \E p \in 1..MaxPool : sessionPool = [i \in 1..p |-> i]
    /\ sessionTurn = 0
    /\ mu = 0
    /\ sVersion \in ScorerVersions
    /\ pc = [c \in Callers |-> "idle"]
    /\ call = [c \in Callers |-> NoCall]
    /\ nsHist = <<>>
    /\ crashed = FALSE
    /\ FVParked
    /\ WrapperParked
    /\ LearnParked
    /\ DispParked
    /\ RegParked
    /\ PoolParked
    /\ DriverParked

\* log.Panicf in caller c, whose locals are then cl: nothing recovers it, the
\* process ends and the other goroutines with it.
Panic(c, cl) ==
    /\ pc' = [d \in Callers |-> IF d = c THEN "panicked" ELSE "dead"]
    /\ call' = [d \in Callers |-> IF d = c THEN cl ELSE NoCall]
    /\ crashed' = TRUE

\* Mutation of EmptyBoards: the empty list let through.
EmptyBoardsUnchecked(boards) == FALSE

\* len(boards) == 0
EmptyBoards(boards) == Len(boards) = 0

\* BatchScore up to the call of NextSession: the empty-batch check, buildFeeds
\* and the fetches.
BatchScoreBegin(c, op, boards) ==
    /\ ~crashed
    /\ pc[c] = "idle"
    /\ LET bf == IF EmptyBoards(boards)
                 THEN [panicked |-> TRUE, feeds |-> NoFeeds, totalNumActions |-> 0]
                 ELSE BuiltFeeds[boards][sVersion]
       IN  IF bf.panicked
           THEN Panic(c, [NoCall EXCEPT !.op = op, !.boards = boards])
           ELSE /\ call' = [call EXCEPT ![c] =
                       [NoCall EXCEPT !.op = op, !.boards = boards, !.feeds = bf.feeds,
                                      !.totalNumActions = bf.totalNumActions,
                                      !.fetches = Fetches(bf.totalNumActions)]]
                /\ pc' = [pc EXCEPT ![c] = "lock"]
                /\ UNCHANGED crashed
    /\ UNCHANGED <<sessionPool, sessionTurn, mu, sVersion, nsHist>>
    /\ UNCHANGED restOfScorer

\* A caller calls s.BatchScore(boards).
CallBatchScore(c) == \E boards \in BatchInputs : BatchScoreBegin(c, "BatchScore", boards)

\* A caller calls s.Score(b), which calls s.BatchScore([]*Board{b}).
CallScore(c) == \E b \in ScoreInputs : BatchScoreBegin(c, "Score", <<b>>)

\* NextSession: s.mu.Lock(), and sess = s.sessionPool[s.sessionTurn].
NSLockRead(c) ==
    /\ ~crashed
    /\ pc[c] = "lock"
    /\ ~Locked
    /\ mu' = c
    /\ call' = [call EXCEPT ![c].sess = sessionPool[sessionTurn + 1]]
    /\ pc' = [pc EXCEPT ![c] = "write"]
    /\ UNCHANGED <<sessionPool, sessionTurn, sVersion, nsHist, crashed>>
    /\ UNCHANGED restOfScorer

\* NextSession: the rotation index advanced, the deferred Unlock, the return.
NSWriteUnlock(c) ==
    /\ ~crashed
    /\ pc[c] = "write"
    /\ sessionTurn' = NextTurn(sessionTurn, Len(sessionPool))
    /\ mu' = 0
    /\ nsHist' = LET h == Append(nsHist, call[c].sess)
                 IN  IF Len(h) > Len(sessionPool) + 1 THEN Tail(h) ELSE h
    /\ pc' = [pc EXCEPT ![c] = "run"]
    /\ UNCHANGED <<sessionPool, sVersion, call, crashed>>
    /\ UNCHANGED restOfScorer

\* BatchScore from sess.Run to its return: the run, the cardinality checks and
\* the slicing of the probabilities.
RunAndCopy(c) ==
    /\ ~crashed
    /\ pc[c] = "run"
    /\ \E results \in RunOutcomes(Len(call[c].boards), call[c].totalNumActions,
                                  call[c].fetches) :
          LET r == CopyResults(call[c].boards, call[c].totalNumActions, results)
              ran == Append(call[c].runs,
                            [sess |-> call[c].sess, fetches |-> call[c].fetches])
          IN  IF r.panicked
              THEN Panic(c, [call[c] EXCEPT !.runs = ran, !.results = results])
              ELSE /\ call' = [call EXCEPT ![c].runs = ran, ![c].results = results,
                                           ![c].scores = r.scores,
                                           ![c].actionProbsBatch = r.actionProbsBatch]
                   /\ pc' = [pc EXCEPT ![c] = "done"]
                   /\ UNCHANGED crashed
    /\ UNCHANGED <<sessionPool, sessionTurn, mu, sVersion, nsHist>>
    /\ UNCHANGED restOfScorer

\* What Score hands back: scores[0] and actionProbsBatch[0].
ScoreReturn(cl) == [score |-> cl.scores[1], actionProbs |-> cl.actionProbsBatch[1]]

\* The caller has its result and is free to call again.
Return(c) ==
    /\ ~crashed
    /\ pc[c] = "done"
    /\ pc' = [pc EXCEPT ![c] = "idle"]
    /\ call' = [call EXCEPT ![c] = NoCall]
    /\ UNCHANGED <<sessionPool, sessionTurn, mu, sVersion, nsHist, crashed>>
    /\ UNCHANGED restOfScorer

Next ==
    \E c \in Callers :
        \/ CallBatchScore(c)
        \/ CallScore(c)
        \/ NSLockRead(c)
        \/ NSWriteUnlock(c)
        \/ RunAndCopy(c)
        \/ Return(c)

Spec == Init /\ [][Next]_vars

(***************************************************************************)
(* package ai: BatchScorerWrapper.BatchScore, over any Scorer s.           *)
(***************************************************************************)
\* The boards the wrapper is given: five, two and no legal actions.
WrapperBoards == {1, 2, 8}

RECURSIVE ListsUpTo(_)
\* The board lists of at most n boards.
ListsUpTo(n) ==
    IF n = 0 THEN {<<>>}
    ELSE LET shorter == ListsUpTo(n - 1)
         IN  shorter \cup {Append(l, b) : l \in shorter, b \in WrapperBoards}

WrapperInputs == ListsUpTo(MaxBatch)

\* What s.Score(board) may return: a score, and action probabilities that are
\* nil or hold one entry per legal action (10 * board + k for the k-th).
ScoreOutcomes(b) ==
    {[score |-> v, actionProbs |-> ap] :
        v \in {-10, 7},
        ap \in {NilSlice, Slice([k \in 1..NumActions(Boards[b]) |-> 10 * b + k])}}

\* Mutation of StoreProbs: the probabilities put in the first free place.
StoreProbsFirstFree(apb, ii, actionProbs) ==
    LET free == {k \in 1..Len(apb) : apb[k].isNil}
        first == CHOOSE k \in free : \A j \in free : k <= j
    IN  [apb EXCEPT ![first] = actionProbs]

\* actionProbsBatch[ii] = actionProbs
StoreProbs(apb, ii, actionProbs) == [apb EXCEPT ![ii + 1] = actionProbs]

WInit ==
    /\ wBoards = <<>>
    /\ wIdx = 0
    /\ wScores = <<>>
    /\ wApb = NilSlice
    /\ wCalls = <<>>
    /\ wPc = "idle"
    /\ FVParked
    /\ ScorerParked
    /\ LearnParked
    /\ DispParked
    /\ RegParked
    /\ PoolParked
    /\ DriverParked

\* BatchScore(boards): scores = make([]float32, len(boards)); actionProbsBatch = nil.
WBatchScore ==
    /\ wPc = "idle"
    /\ \E boards \in WrapperInputs :
          /\ wBoards' = boards
          /\ wScores' = [i \in 1..Len(boards) |-> 0]
    /\ wIdx' = 0
    /\ wApb' = NilSlice
    /\ wCalls' = <<>>
    /\ wPc' = "loop"
    /\ UNCHANGED restOfWrapper

\* One turn of the loop: s.Score(board), its score stored, and its action
\* probabilities stored when they are not nil.
WLoop ==
    /\ wPc = "loop"
    /\ wIdx < Len(wBoards)
    /\ \E r \in ScoreOutcomes(wBoards[wIdx + 1]) :
          /\ wCalls' = Append(wCalls, [board |-> wBoards[wIdx + 1], score |-> r.score,
                                       actionProbs |-> r.actionProbs])
          /\ wScores' = [wScores EXCEPT ![wIdx + 1] = r.score]
          /\ wApb' = IF r.actionProbs.isNil THEN wApb
                     ELSE LET made == IF wApb.isNil
                                      THEN [i \in 1..Len(wBoards) |-> NilSlice]
                                      ELSE wApb.elems
                          IN  Slice(StoreProbs(made, wIdx, r.actionProbs))
    /\ wIdx' = wIdx + 1
    /\ UNCHANGED <<wBoards, wPc>>
    /\ UNCHANGED restOfWrapper

\* The loop is over: return.
WReturn ==
    /\ wPc = "loop"
    /\ wIdx = Len(wBoards)
    /\ wPc' = "returned"
    /\ UNCHANGED <<wBoards, wIdx, wScores, wApb, wCalls>>
    /\ UNCHANGED restOfWrapper

\* The caller has the result and may call again.
WDone ==
    /\ wPc = "returned"
    /\ wPc' = "idle"
    /\ wBoards' = <<>>
    /\ wIdx' = 0
    /\ wScores' = <<>>
    /\ wApb' = NilSlice
    /\ wCalls' = <<>>
    /\ UNCHANGED restOfWrapper

WNext == WBatchScore \/ WLoop \/ WReturn \/ WDone

SpecWrapper == WInit /\ [][WNext]_vars

(***************************************************************************)
(* package tensorflow: New (restore or initialise), Learn and Save.        *)
(***************************************************************************)
NoFiles == [index |-> 0, data |-> 0, indexBak |-> 0, dataBak |-> 0]

\* The checkpoint files New may find: none, the pair, or one file of the pair.
InitialFiles ==
    {[NoFiles EXCEPT !.index = i, !.data = d] : i \in {0, 1}, d \in {0, 1}}

\* The result of os.Stat on a file: err == nil, os.IsNotExist(err), or
\* another error.
StatOutcomes(present) == {IF present THEN "ok" ELSE "notexist", "error"}

\* Mutation of StatOk: the checkpoint taken to be absent.
StatOkNever(present) == FALSE

\* os.Stat in Save, which only asks whether err == nil.
StatOk(present) == present

NoOp ==
    [op |-> "none", boards |-> <<>>, actionsLabels |-> <<>>, steps |-> 0,
     outcome |-> "none", before |-> NoFiles]

\* The runs of an operation on the sessions 1..n of the pool, in order.
RunsOn(n, op) == [i \in 1..n |-> [sess |-> i, op |-> op]]

\* New after the pool is made and s.version set: Stat of the index file, then
\* Restore or Init over every session of the pool, which stop at the first
\* session that fails (failAt, 0 when none does; in Restore the tensor of the
\* file name may fail to be made before the run).  New panics on any failure.
NewOutcome(present, st, p, failAt, tensor) ==
    IF st = "error" THEN [panicked |-> TRUE, outcome |-> "stat", runs |-> <<>>]
    ELSE LET op == IF st = "ok" THEN "restore" ELSE "init"
         IN  IF failAt = 0
             THEN [panicked |-> FALSE, outcome |-> "ok", runs |-> RunsOn(p, op)]
             ELSE IF tensor /\ op = "restore"
             THEN [panicked |-> TRUE, outcome |-> "tensor",
                   runs |-> RunsOn(failAt - 1, op)]
             ELSE [panicked |-> TRUE, outcome |-> op, runs |-> RunsOn(failAt, op)]

\* Mutation of PoolTooLarge: pools of two sessions let through.
PoolTooLargeOffByOne(poolSize) == poolSize > 2

\* len(s.sessionPool) > 1
PoolTooLarge(poolSize) == poolSize > 1

\* Mutation of RowMatches: the length of a row of labels not checked.
RowMatchesUnchecked(labels, b) == TRUE

\* len(labels) == boards[ii].NumActions()
RowMatches(labels, b) == Len(labels) = NumActions(b)

\* Learn's loop over actionsLabels: rows that are not empty are checked against
\* their board (boards[ii] is out of range when there is no such board) and
\* appended to actionsSparseLabels.
RECURSIVE LabelsLoop(_, _, _, _)
LabelsLoop(boards, actionsLabels, ii, acc) ==
    IF acc.outcome # "ok" \/ ii >= Len(actionsLabels) THEN acc
    ELSE LET labels == actionsLabels[ii + 1]
         IN  IF Len(labels) > 0
             THEN IF ii >= Len(boards)
                  THEN [acc EXCEPT !.outcome = "index"]
                  ELSE IF ~RowMatches(labels, Boards[boards[ii + 1]])
                  THEN [acc EXCEPT !.outcome = "row"]
                  ELSE LabelsLoop(boards, actionsLabels, ii + 1,
                           [acc EXCEPT !.sparse = acc.sparse \o labels])
             ELSE LabelsLoop(boards, actionsLabels, ii + 1, acc)

\* The board lists given to Learn, with legal-action counts (), (2), (0) and
\* (2, 0).
LearnBoards == {<<>>, <<2>>, <<8>>, <<2, 8>>}

\* buildFeeds of every board list given to Learn, evaluated once.
LearnFeeds ==
    [boards \in LearnBoards |-> [ver \in ScorerVersions |-> buildFeeds(boards, ver)]]

\* Learn up to its loop over steps: "ok", or the panic it ends in.
LearnChecks(boards, actionsLabels, poolSize, ver) ==
    IF PoolTooLarge(poolSize) THEN "pool"
    ELSE LET bf == LearnFeeds[boards][ver]
         IN  IF bf.panicked THEN "version"
             ELSE IF EmptyBoards(boards) THEN "empty"
             ELSE LET r == LabelsLoop(boards, actionsLabels, 0,
                                      [outcome |-> "ok", sparse |-> <<>>])
                  IN  IF r.outcome # "ok" THEN r.outcome
                      ELSE IF Len(r.sparse) # bf.totalNumActions THEN "total"
                      ELSE "ok"

\* The rows of action labels: nothing, or up to MaxRowLen labels.
LabelRows == {[k \in 1..n |-> 1] : n \in 0..MaxRowLen}

RECURSIVE RowLists(_)
RowLists(n) ==
    IF n = 0 THEN {<<>>}
    ELSE LET shorter == RowLists(n - 1)
         IN  shorter \cup {Append(l, r) : l \in shorter, r \in LabelRows}

LearnLabels == RowLists(MaxRows)

LInit ==
    /\ lPool = 0
    /\ lVersion = 0
    /\ lPc = "start"
    /\ lOp = NoOp
    /\ lStep = 0
    /\ lRuns = <<>>
    /\ lRenames = <<>>
    /\ files \in InitialFiles
    /\ lSaves = 0
    /\ FVParked
    /\ ScorerParked
    /\ WrapperParked
    /\ DispParked
    /\ RegParked
    /\ PoolParked
    /\ DriverParked

\* New(basename, sessionPoolSize, forceCPU).
LNew ==
    /\ lPc = "start"
    /\ \E p \in 1..MaxPool, ver \in ScorerVersions,
          st \in StatOutcomes(files.index # 0), failAt \in 0..MaxPool,
          tensor \in BOOLEAN :
          /\ failAt <= p
          /\ LET r == NewOutcome(files.index # 0, st, p, failAt, tensor)
             IN  /\ lPool' = p
                 /\ lVersion' = ver
                 /\ lRuns' = r.runs
                 /\ lOp' = [NoOp EXCEPT !.op = "New", !.outcome = r.outcome,
                                        !.before = files]
                 /\ lPc' = IF r.panicked THEN "panicked" ELSE "ready"
    /\ UNCHANGED <<lStep, lRenames, files, lSaves>>
    /\ UNCHANGED restOfLearn

\* Learn(boards, boardLabels, actionsLabels, learningRate, steps) up to its
\* loop over steps.
LLearn ==
    /\ lPc = "ready"
    /\ \E boards \in LearnBoards, actionsLabels \in LearnLabels, steps \in 0..MaxSteps :
          LET outcome == LearnChecks(boards, actionsLabels, lPool, lVersion)
          IN  /\ lOp' = [NoOp EXCEPT !.op = "Learn", !.boards = boards,
                                     !.actionsLabels = actionsLabels, !.steps = steps,
                                     !.outcome = outcome, !.before = files]
              /\ lPc' = IF outcome = "ok" THEN "train" ELSE "panicked"
    /\ lStep' = 0
    /\ lRuns' = <<>>
    /\ lRenames' = <<>>
    /\ UNCHANGED <<lPool, lVersion, files, lSaves>>
    /\ UNCHANGED restOfLearn

\* One turn of Learn's loop: the train operation run on s.sessionPool[0].
LTrainStep ==
    /\ lPc = "train"
    /\ lStep < lOp.steps
    /\ lRuns' = Append(lRuns, [sess |-> 1, op |-> "train"])
    /\ \E err \in BOOLEAN :
          IF err
          THEN /\ lPc' = "panicked"
               /\ lOp' = [lOp EXCEPT !.outcome = "train"]
               /\ UNCHANGED lStep
          ELSE /\ lStep' = lStep + 1
               /\ UNCHANGED <<lPc, lOp>>
    /\ UNCHANGED <<lPool, lVersion, lRenames, files, lSaves>>
    /\ UNCHANGED restOfLearn

\* After the loop: the loss fetched on s.sessionPool[0] and returned.
LLoss ==
    /\ lPc = "train"
    /\ lStep >= lOp.steps
    /\ lRuns' = Append(lRuns, [sess |-> 1, op |-> "loss"])
    /\ \E err \in BOOLEAN :
          IF err
          THEN /\ lPc' = "panicked"
               /\ lOp' = [lOp EXCEPT !.outcome = "loss"]
          ELSE /\ lPc' = "returned"
               /\ UNCHANGED lOp
    /\ UNCHANGED <<lPool, lVersion, lStep, lRenames, files, lSaves>>
    /\ UNCHANGED restOfLearn

\* Save(): the pool check and the Stat of the index file.
LSave ==
    /\ lPc = "ready"
    /\ lSaves < MaxSaves
    /\ lOp' = [NoOp EXCEPT !.op = "Save", !.before = files,
                           !.outcome = IF PoolTooLarge(lPool) THEN "pool" ELSE "ok"]
    /\ lPc' = IF PoolTooLarge(lPool) THEN "panicked"
              ELSE IF StatOk(files.index # 0) THEN "renameIndex"
              ELSE "saveRun"
    /\ lStep' = 0
    /\ lRuns' = <<>>
    /\ lRenames' = <<>>
    /\ UNCHANGED <<lPool, lVersion, files, lSaves>>
    /\ UNCHANGED restOfLearn

\* os.Rename(from, to): it fails when from is absent and may fail otherwise;
\* when it succeeds, to holds what from held and from is gone.
Rename(fs, from, to, ok) ==
    IF ok /\ fs[from] # 0 THEN [fs EXCEPT ![to] = fs[from], ![from] = 0] ELSE fs

\* os.Rename(index, index+"~"); a failure is logged.
LRenameIndex ==
    /\ lPc = "renameIndex"
    /\ \E ok \in BOOLEAN :
          /\ files' = Rename(files, "index", "indexBak", ok)
          /\ lRenames' = Append(lRenames,
                 [from |-> "index", to |-> "indexBak", ok |-> ok /\ files.index # 0])
    /\ lPc' = "renameData"
    /\ UNCHANGED <<lPool, lVersion, lOp, lStep, lRuns, lSaves>>
    /\ UNCHANGED restOfLearn

\* os.Rename(data, data+"~"); a failure is logged.
LRenameData ==
    /\ lPc = "renameData"
    /\ \E ok \in BOOLEAN :
          /\ files' = Rename(files, "data", "dataBak", ok)
          /\ lRenames' = Append(lRenames,
                 [from |-> "data", to |-> "dataBak", ok |-> ok /\ files.data # 0])
    /\ lPc' = "saveRun"
    /\ UNCHANGED <<lPool, lVersion, lOp, lStep, lRuns, lSaves>>
    /\ UNCHANGED restOfLearn

\* The generation of the weights the next save writes.
NewGeneration == lSaves + 2

\* The tensor of the checkpoint name, and the save operation run on
\* s.sessionPool[0], which writes the checkpoint pair.
LSaveRun ==
    /\ lPc = "saveRun"
    /\ \E outcome \in {"ok", "tensor", "save"} :
          /\ lOp' = [lOp EXCEPT !.outcome = outcome]
          /\ lRuns' = IF outcome = "tensor" THEN lRuns
                      ELSE Append(lRuns, [sess |-> 1, op |-> "save"])
          /\ lPc' = IF outcome = "ok" THEN "returned" ELSE "panicked"
          /\ files' = IF outcome = "ok"
                      THEN [files EXCEPT !.index = NewGeneration, !.data = NewGeneration]
                      ELSE files
          /\ lSaves' = IF outcome = "ok" THEN lSaves + 1 ELSE lSaves
    /\ UNCHANGED <<lPool, lVersion, lStep, lRenames>>
    /\ UNCHANGED restOfLearn

\* Learn or Save has returned, and the Scorer is called again.
LReturn ==
    /\ lPc = "returned"
    /\ lPc' = "ready"
    /\ lOp' = NoOp
    /\ lStep' = 0
    /\ lRuns' = <<>>
    /\ lRenames' = <<>>
    /\ UNCHANGED <<lPool, lVersion, files, lSaves>>
    /\ UNCHANGED restOfLearn

LNext ==
    \/ LNew
    \/ LLearn
    \/ LTrainStep
    \/ LLoss
    \/ LSave
    \/ LRenameIndex
    \/ LRenameData
    \/ LSaveRun
    \/ LReturn

SpecLearn == LInit /\ [][LNext]_vars

\* The Scorer under concurrent scoring calls, or under New, Learn and Save.
InitScorerLearn == Init \/ LInit

NextScorerLearn ==
    \/ pc # <<>> /\ Next
    \/ lPc # "parked" /\ LNext

SpecScorerLearn == InitScorerLearn /\ [][NextScorerLearn]_vars

(***************************************************************************)
(* The auto-batching dispatcher: one coordinator reading scoring requests  *)
(* and batch-size messages from one ordered queue, batches executed as     *)
(* independent tasks, results handed back through completion signals.      *)
(***************************************************************************)
Requests == 1..NumRequests

\* No batch is being accumulated.
NoBatch == [target |-> 0, reqs |-> <<>>]

\* A scoring request and a batch-size message on the queue.
ReqMsg(r) == [kind |-> "request", req |-> r, size |-> 0]

CtlMsg(k) == [kind |-> "batchSize", req |-> 0, size |-> k]

\* The target sizes a batch-size message may ask for (0 is below the least).
TargetsAsked == 0..MaxTarget

\* The configured target: values below 1 are clamped to 1.
Clamp(k) == IF k < 1 THEN 1 ELSE k

\* The accumulated count has reached the target batch size.
BatchFull(batch) == Len(batch.reqs) >= batch.target

DInit ==
    /\ dQueue = <<>>
    /\ dTarget \in 1..MaxTarget
    /\ dAccum = NoBatch
    /\ dBatches = <<>>
    /\ dState = [r \in Requests |-> "new"]
    /\ dResult = [r \in Requests |-> <<>>]
    /\ dSignals = [r \in Requests |-> 0]
    /\ dOrder = <<>>
    /\ dCtl = 0
    /\ FVParked
    /\ ScorerParked
    /\ WrapperParked
    /\ LearnParked
    /\ RegParked
    /\ PoolParked
    /\ DriverParked

\* A caller submits scoring request r and blocks on its completion signal.
DSubmit(r) ==
    /\ dState[r] = "new"
    /\ dQueue' = Append(dQueue, ReqMsg(r))
    /\ dOrder' = Append(dOrder, r)
    /\ dState' = [dState EXCEPT ![r] = "waiting"]
    /\ UNCHANGED <<dTarget, dAccum, dBatches, dResult, dSignals, dCtl>>
    /\ UNCHANGED restOfDisp

\* The target batch size is set and the coordinator told through the queue.
DSetBatchSize ==
    /\ dCtl < MaxCtl
    /\ \E k \in TargetsAsked : dQueue' = Append(dQueue, CtlMsg(Clamp(k)))
    /\ dCtl' = dCtl + 1
    /\ UNCHANGED <<dTarget, dAccum, dBatches, dState, dResult, dSignals, dOrder>>
    /\ UNCHANGED restOfDisp

\* The coordinator receives a scoring request: it starts a batch when none
\* is being accumulated, appends the request, and hands the batch over when
\* the count has reached the target, returning to Idle.
DReceiveRequest ==
    /\ dQueue # <<>>
    /\ Head(dQueue).kind = "request"
    /\ LET accum == IF dAccum = NoBatch
                    THEN [target |-> dTarget, reqs |-> <<>>]
                    ELSE dAccum
           batch == [accum EXCEPT !.reqs = Append(accum.reqs, Head(dQueue).req)]
       IN  IF BatchFull(batch)
           THEN /\ dBatches' = Append(dBatches, [reqs |-> batch.reqs, state |-> "running"])
                /\ dAccum' = NoBatch
           ELSE /\ dAccum' = batch
                /\ UNCHANGED dBatches
    /\ dQueue' = Tail(dQueue)
    /\ UNCHANGED <<dTarget, dState, dResult, dSignals, dOrder, dCtl>>
    /\ UNCHANGED restOfDisp

\* The coordinator receives a batch-size message: the target of the batches
\* started from now on; a batch being accumulated keeps its own.
DReceiveBatchSize ==
    /\ dQueue # <<>>
    /\ Head(dQueue).kind = "batchSize"
    /\ dTarget' = Head(dQueue).size
    /\ dQueue' = Tail(dQueue)
    /\ UNCHANGED <<dAccum, dBatches, dState, dResult, dSignals, dOrder, dCtl>>
    /\ UNCHANGED restOfDisp

\* The task of batch b: the adapter has scored the batch.
DRun(b) ==
    /\ b \in DOMAIN dBatches
    /\ dBatches[b].state = "running"
    /\ dBatches' = [dBatches EXCEPT ![b].state = "scored"]
    /\ UNCHANGED <<dQueue, dTarget, dAccum, dState, dResult, dSignals, dOrder, dCtl>>
    /\ UNCHANGED restOfDisp

\* The task of batch b: every request of the batch gets its result (the i-th
\* request that of the i-th board) and its completion signal.
DDeliver(b) ==
    /\ b \in DOMAIN dBatches
    /\ dBatches[b].state = "scored"
    /\ LET reqs == dBatches[b].reqs
           at(r) == CHOOSE i \in DOMAIN reqs : reqs[i] = r
           inBatch == {reqs[i] : i \in DOMAIN reqs}
       IN  /\ dResult' = [r \in Requests |->
                            IF r \in inBatch THEN <<b, at(r)>> ELSE dResult[r]]
           /\ dSignals' = [r \in Requests |->
                            IF r \in inBatch THEN dSignals[r] + 1 ELSE dSignals[r]]
    /\ dBatches' = [dBatches EXCEPT ![b].state = "delivered"]
    /\ UNCHANGED <<dQueue, dTarget, dAccum, dState, dOrder, dCtl>>
    /\ UNCHANGED restOfDisp

\* The caller of request r sees its completion signal and returns.
DWake(r) ==
    /\ dState[r] = "waiting"
    /\ dSignals[r] > 0
    /\ dState' = [dState EXCEPT ![r] = "returned"]
    /\ UNCHANGED <<dQueue, dTarget, dAccum, dBatches, dResult, dSignals, dOrder, dCtl>>
    /\ UNCHANGED restOfDisp

DNext ==
    \/ \E r \in Requests : DSubmit(r)
    \/ DSetBatchSize
    \/ DReceiveRequest
    \/ DReceiveBatchSize
    \/ \E b \in DOMAIN dBatches : DRun(b)
    \/ \E b \in DOMAIN dBatches : DDeliver(b)
    \/ \E r \in Requests : DWake(r)

SpecDisp == DInit /\ [][DNext]_vars

\* The coordinator, the batch tasks and the woken callers keep running;
\* nobody has to submit a request or change the batch size.
DFairness ==
    /\ WF_vars(DReceiveRequest)
    /\ WF_vars(DReceiveBatchSize)
    /\ WF_vars(\E b \in DOMAIN dBatches : DRun(b))
    /\ WF_vars(\E b \in DOMAIN dBatches : DDeliver(b))
    /\ WF_vars(\E r \in Requests : DWake(r))

SpecDispFair == DInit /\ [][DNext]_vars /\ DFairness

(***************************************************************************)
(* package ai: the registry as the package's global state: its             *)
(* initialization, and the operations that read it afterwards.             *)
(***************************************************************************)
\* The declaration with the entries i and j exchanged.
Exchanged(decl, i, j) == [decl EXCEPT ![i] = decl[j], ![j] = decl[i]]

\* The declarations init is run on: the program's, its leading parts (the
\* registries of earlier versions), and those with two entries out of place.
Declarations ==
    {SubSeq(AllFeaturesDecl, 1, n) : n \in 0..Len(AllFeaturesDecl)}
    \cup {Exchanged(AllFeaturesDecl, i, j) : i, j \in 1..Len(AllFeaturesDecl)}

NoRegOp == [op |-> "none", board |-> 0, version |-> 0, out |-> <<>>]

\* PrettyPrintFeatures(f): one line per feature, its name and its slice of f.
PrettyPrintFeatures(feats, f) ==
    [ii \in 1..Len(feats) |->
        [Name |-> feats[ii].Name,
         values |-> SubSeq(f, feats[ii].VecIndex + 1, feats[ii].VecIndex + feats[ii].Dim)]]

RInit ==
    /\ regDecl \in Declarations
    /\ regFeatures = regDecl
    /\ regDim = 0
    /\ regPc = "declared"
    /\ regLast = NoRegOp
    /\ FVParked
    /\ ScorerParked
    /\ WrapperParked
    /\ LearnParked
    /\ DispParked
    /\ PoolParked
    /\ DriverParked

\* init(): VecIndex of every entry and AllFeaturesDim set, or log.Fatalf at the
\* first entry whose FId is not its index.
RInitPackage ==
    /\ regPc = "declared"
    /\ LET r == InitFeatures(regDecl, 1, 0)
       IN  /\ regFeatures' = r.features
           /\ regDim' = r.dim
           /\ regPc' = IF r.fatal THEN "fatal" ELSE "initialized"
    /\ UNCHANGED <<regDecl, regLast>>
    /\ UNCHANGED restOfReg

\* FeatureVector(b, version) on the program's registry; it and the setters it
\* calls read AllFeatures and AllFeaturesDim and write only the vector.
RFeatureVector ==
    /\ regPc = "initialized"
    /\ regFeatures = AllFeatures
    /\ regDim = AllFeaturesDim
    /\ \E b \in BoardIds, version \in Versions :
          regLast' = [op |-> "FeatureVector", board |-> b, version |-> version,
                      out |-> FeatureVector(Boards[b], version).f]
    /\ UNCHANGED <<regDecl, regFeatures, regDim, regPc>>
    /\ UNCHANGED restOfReg

\* PrettyPrintFeatures of a board's full vector.
RPrettyPrintFeatures ==
    /\ regPc = "initialized"
    /\ regFeatures = AllFeatures
    /\ regDim = AllFeaturesDim
    /\ \E b \in BoardIds :
          regLast' = [op |-> "PrettyPrintFeatures", board |-> b, version |-> regDim,
                      out |-> PrettyPrintFeatures(regFeatures,
                                  FeatureVector(Boards[b], regDim).f)]
    /\ UNCHANGED <<regDecl, regFeatures, regDim, regPc>>
    /\ UNCHANGED restOfReg

RNext == RInitPackage \/ RFeatureVector \/ RPrettyPrintFeatures

SpecRegistry == RInit /\ [][RNext]_vars

(***************************************************************************)
(* package tensorflow: the weights held by the sessions of the pool, from  *)
(* New to the scores BatchScore returns.  Weights are written as numbers:  *)
(* 0 for variables no run has set yet.                                     *)
(***************************************************************************)
\* The weights a checkpoint may hold.
CheckpointWeights == {1, 2}

\* The weights one run of InitOp may leave in a session: the initializers of
\* the graph draw them at random ("Initializing model randomly"), once per run.
InitWeights == {3, 4}

\* The board lists scored.
PoolBoards == {<<2>>, <<2, 1>>}

\* The value predictions of a session: decided by the weights it holds and by
\* the board features fed.
ModelScores(weights, boards) == [i \in 1..Len(boards) |-> 100 * weights + boards[i]]

\* The weights of the sessions 1..p after the loop of Restore or Init: the
\* runs before the failing one (all when failAt = 0) have set them, to the
\* checkpoint's in Restore and to what each run drew in Init.
SessionWeights(p, op, failAt, ckpt, drawn) ==
    [i \in 1..p |->
        IF failAt # 0 /\ i >= failAt THEN 0
        ELSE IF op = "restore" THEN ckpt ELSE drawn[i]]

PInit ==
    /\ poolCkpt \in {0} \cup CheckpointWeights
    /\ poolWeights = <<>>
    /\ poolTurn = 0
    /\ poolScored = <<>>
    /\ poolPc = "start"
    /\ FVParked
    /\ ScorerParked
    /\ WrapperParked
    /\ LearnParked
    /\ DispParked
    /\ RegParked
    /\ DriverParked

\* New(basename, sessionPoolSize, forceCPU): the pool, then Restore when the
\* checkpoint's index file is there and Init when it is not.
PNew ==
    /\ poolPc = "start"
    /\ \E p \in 1..MaxPool, st \in StatOutcomes(poolCkpt # 0), failAt \in 0..MaxPool,
          tensor \in BOOLEAN, drawn \in [1..MaxPool -> InitWeights] :
          /\ failAt <= p
          /\ LET r == NewOutcome(poolCkpt # 0, st, p, failAt, tensor)
                 op == IF st = "ok" THEN "restore" ELSE "init"
             IN  /\ poolWeights' =
                        IF st = "error" THEN [i \in 1..p |-> 0]
                        ELSE SessionWeights(p, op, failAt, poolCkpt, drawn)
                 /\ poolPc' = IF r.panicked THEN "panicked" ELSE "ready"
    /\ UNCHANGED <<poolCkpt, poolTurn, poolScored>>
    /\ UNCHANGED restOfPool

\* BatchScore(boards): the session NextSession hands out runs the model, and
\* its predictions are returned (a failing Run panics).
PBatchScore ==
    /\ poolPc = "ready"
    /\ Len(poolScored) < MaxScored
    /\ \E boards \in PoolBoards, err \in BOOLEAN :
          LET sess == poolTurn + 1
          IN  /\ poolTurn' = NextTurn(poolTurn, Len(poolWeights))
              /\ IF err
                 THEN /\ poolPc' = "panicked"
                      /\ UNCHANGED poolScored
                 ELSE /\ poolScored' = Append(poolScored,
                              [sess |-> sess, boards |-> boards,
                               scores |-> ModelScores(poolWeights[sess], boards)])
                      /\ UNCHANGED poolPc
    /\ UNCHANGED <<poolCkpt, poolWeights>>
    /\ UNCHANGED restOfPool

PNext == PNew \/ PBatchScore

SpecPool == PInit /\ [][PNext]_vars

(***************************************************************************)
(* gnome-hive (package main): the game driver.  A board of the state       *)
(* package is written as the game it was made for by NewBoard and the      *)
(* actions played on it since; an action is written as what it leads to.   *)
(***************************************************************************)
\* The values of --p0 and --p1.
PlayerFlags == {"hotseat", "ai", "none of the two"}

\* The actions a player may play: one after which the game goes on, one that
\* wins, one after which the other side has no action, and one after which
\* neither side has.
PlayedActions == {"move", "win", "block", "stall"}

\* Action{Piece: NO_PIECE}.
SkipAction == "skip"

\* NewBoard() with MaxMoves set and BuildDerived(), in the game-th game.
NewBoard(game) == [game |-> game, moves |-> <<>>]

\* board.Act(action).
Act(b, action) == [b EXCEPT !.moves = Append(b.moves, action)]

\* board.IsFinished(): won, or the move limit reached.
BoardIsFinished(b) ==
    /\ b.moves # <<>>
    /\ \/ b.moves[Len(b.moves)] = "win"
       \/ Len(b.moves) >= MaxMovesFlag

\* len(board.Derived.Actions) == 0
NoActionAvailable(b) ==
    /\ b.moves # <<>>
    /\ \/ b.moves[Len(b.moves)] \in {"block", "stall"}
       \/ /\ Len(b.moves) >= 2
          /\ b.moves[Len(b.moves)] = SkipAction
          /\ b.moves[Len(b.moves) - 1] = "stall"

\* board.NextPlayer
BoardNextPlayer(b) == Len(b.moves) % 2

\* executeAction up to followAction: the board acted on and appended to
\* gameSeq, and the automatic skip when the side to move has no action, which
\* is fatal after a skip.
RECURSIVE ExecuteAction(_, _, _)
ExecuteAction(b, seq, action) ==
    LET nb == Act(b, action)
        nseq == Append(seq, nb)
        fin == BoardIsFinished(nb)
    IN  IF ~fin /\ NoActionAvailable(nb)
        THEN IF action = SkipAction
             THEN [fatal |-> TRUE, board |-> nb, gameSeq |-> nseq, finished |-> fin]
             ELSE ExecuteAction(nb, nseq, SkipAction)
        ELSE [fatal |-> FALSE, board |-> nb, gameSeq |-> nseq, finished |-> fin]

\* followAction: nextIsAI.
FollowNextIsAI(fin, b, ai) == ~fin /\ ai[BoardNextPlayer(b)]

\* newGame, the loop over --p0 and --p1: the AI players made before the first
\* unknown flag, which is fatal.
CreatePlayers(flags, ai) ==
    [fatal |-> \E ii \in 0..1 : flags[ii] \notin {"hotseat", "ai"},
     aiPlayers |-> [ii \in 0..1 |->
        IF flags[ii] = "ai" /\ \A jj \in 0..ii : flags[jj] \in {"hotseat", "ai"}
        THEN TRUE ELSE ai[ii]]]

NoDriverOp == [op |-> "none", acted |-> FALSE, before |-> NewBoard(0)]

\* What newGame leaves in the package's gameSeq: it declares a gameSeq of its
\* own (":=") and appends the board to that one.
NewGameSeq(seq, b) == seq

\* main: the board drawn before any game, no game started.
GInit ==
    /\ flagPlayers \in [0..1 -> PlayerFlags]
    /\ gBoard = NewBoard(0)
    /\ gameSeq = <<>>
    /\ started = FALSE
    /\ finished = FALSE
    /\ nextIsAI = FALSE
    /\ aiPlayers = [ii \in 0..1 |-> FALSE]
    /\ gPending = 0
    /\ gGames = 0
    /\ gCrashed = "no"
    /\ gLast = NoDriverOp
    /\ FVParked
    /\ ScorerParked
    /\ WrapperParked
    /\ LearnParked
    /\ DispParked
    /\ RegParked
    /\ PoolParked

\* newGame(): a new board, the players, and the first action when an AI starts.
GNewGame ==
    /\ gCrashed = "no"
    /\ gGames < MaxGames
    /\ gGames' = gGames + 1
    /\ LET b == NewBoard(gGames + 1)
           seq == NewGameSeq(gameSeq, b)
           pl == CreatePlayers(flagPlayers, aiPlayers)
       IN  /\ aiPlayers' = pl.aiPlayers
           /\ gLast' = [op |-> "newGame", acted |-> TRUE, before |-> gBoard]
           /\ IF pl.fatal
              THEN /\ gCrashed' = "fatal"
                   /\ gBoard' = b
                   /\ gameSeq' = seq
                   /\ UNCHANGED <<started, finished, nextIsAI, gPending>>
              ELSE /\ started' = TRUE
                   /\ IF pl.aiPlayers[BoardNextPlayer(b)]
                      THEN \E action \in PlayedActions :
                              LET r == ExecuteAction(b, seq, action)
                                  ai == FollowNextIsAI(r.finished, r.board, pl.aiPlayers)
                              IN  /\ gBoard' = r.board
                                  /\ gameSeq' = r.gameSeq
                                  /\ finished' = r.finished
                                  /\ gCrashed' = IF r.fatal THEN "fatal" ELSE "no"
                                  /\ nextIsAI' = IF r.fatal THEN nextIsAI ELSE ai
                                  /\ gPending' = IF ~r.fatal /\ ai THEN gPending + 1
                                                 ELSE gPending
                      ELSE /\ gBoard' = b
                           /\ gameSeq' = seq
                           /\ finished' = FALSE
                           /\ UNCHANGED <<nextIsAI, gPending, gCrashed>>
    /\ UNCHANGED flagPlayers
    /\ UNCHANGED restOfDriver

\* executeAction(action) and the followAction it ends with.
GExecute(action, pendingLeft) ==
    LET r == ExecuteAction(gBoard, gameSeq, action)
        ai == FollowNextIsAI(r.finished, r.board, aiPlayers)
    IN  /\ gBoard' = r.board
        /\ gameSeq' = r.gameSeq
        /\ finished' = r.finished
        /\ gCrashed' = IF r.fatal THEN "fatal" ELSE "no"
        /\ nextIsAI' = IF r.fatal THEN nextIsAI ELSE ai
        /\ gPending' = IF ~r.fatal /\ ai THEN pendingLeft + 1 ELSE pendingLeft
        /\ gLast' = [op |-> "executeAction", acted |-> TRUE, before |-> gBoard]
        /\ UNCHANGED <<flagPlayers, started, aiPlayers, gGames>>
        /\ UNCHANGED restOfDriver

\* The human to move plays an action on the window.
GExecuteHuman ==
    /\ gCrashed = "no"
    /\ started
    /\ ~finished
    /\ ~nextIsAI
    /\ \E action \in PlayedActions : GExecute(action, gPending)

\* The idle callback of an AI's goroutine: executeAction of the action it chose.
GExecuteAI ==
    /\ gCrashed = "no"
    /\ gPending > 0
    /\ \E action \in PlayedActions : GExecute(action, gPending - 1)

\* undoAction(): nothing while the AI is to move, the game is finished or
\* gameSeq has fewer than two boards; else the last two boards dropped, and the
\* last of the remaining ones read (a runtime panic when none remains).
GUndoAction ==
    /\ gCrashed = "no"
    /\ IF nextIsAI \/ finished \/ Len(gameSeq) < 2
       THEN /\ gLast' = [op |-> "undoAction", acted |-> FALSE, before |-> gBoard]
            /\ UNCHANGED <<gBoard, gameSeq, finished, nextIsAI, gPending, gCrashed>>
       ELSE LET seq == SubSeq(gameSeq, 1, Len(gameSeq) - 2)
            IN  /\ gameSeq' = seq
                /\ gLast' = [op |-> "undoAction", acted |-> TRUE, before |-> gBoard]
                /\ IF seq = <<>>
                   THEN /\ gCrashed' = "panic"
                        /\ UNCHANGED <<gBoard, finished, nextIsAI, gPending>>
                   ELSE LET b == seq[Len(seq)]
                            ai == FollowNextIsAI(finished, b, aiPlayers)
                        IN  /\ gBoard' = b
                            /\ nextIsAI' = ai
                            /\ gPending' = IF ai THEN gPending + 1 ELSE gPending
                            /\ UNCHANGED <<finished, gCrashed>>
    /\ UNCHANGED <<flagPlayers, started, aiPlayers, gGames>>
    /\ UNCHANGED restOfDriver

GNext == GNewGame \/ GExecuteHuman \/ GExecuteAI \/ GUndoAction

SpecDriver == GInit /\ [][GNext]_vars

(***************************************************************************)
(* Properties of the encoder (SpecFV).                                     *)
(***************************************************************************)
FeatureIdx == 1..Len(AllFeatures)

RECURSIVE SumDims(_, _)
\* The sum of Dim over the registry entries 1..n of the features in keep (FIds).
SumDims(n, keep) ==
    IF n = 0 THEN 0
    ELSE SumDims(n - 1, keep)
         + (IF AllFeatures[n].FId \in keep THEN AllFeatures[n].Dim ELSE 0)

\* The FIds of the features introduced at or before version.
FIdsOf(version) ==
    {AllFeatures[i].FId : i \in {j \in FeatureIdx : AllFeatures[j].Version <= version}}

\* The length of the vector of a version: the Dim of the features introduced by then.
WidthOf(version) == SumDims(Len(AllFeatures), FIdsOf(version))

\* Where feature ii starts (Go index) in a vector encoded for version.
OffsetIn(version, ii) == SumDims(ii - 1, FIdsOf(version))

\* The slice of feature ii in vec, a vector encoded for version.
SliceIn(vec, version, ii) ==
    SubSeq(vec, OffsetIn(version, ii) + 1, OffsetIn(version, ii) + AllFeatures[ii].Dim)

RECURSIVE SlicesUpTo(_, _, _, _)
\* The slices in vec (encoded for version) of the features 1..n introduced at or
\* before v1, concatenated in registry order.
SlicesUpTo(vec, version, v1, n) ==
    IF n = 0 THEN <<>>
    ELSE SlicesUpTo(vec, version, v1, n - 1)
         \o (IF AllFeatures[n].Version <= v1 THEN SliceIn(vec, version, n) ELSE <<>>)

\* C2: for every board and all versions V1 <= V2 <= AllFeaturesDim,
\* FeatureVector(B, V1) is the concatenation, in registry order, of the slices of
\* FeatureVector(B, V2) that belong to the features with Version <= V1.
C2_PrefixCompatibility ==
    (fvPc = "second" /\ fvV1 <= fvV2 /\ fvV2 <= AllFeaturesDim)
        => /\ ~fvR1.panicked /\ ~fvR2.panicked
           /\ Len(fvR2.f) = WidthOf(fvV2)
           /\ fvR1.f = SlicesUpTo(fvR2.f, fvV2, fvV1, Len(AllFeatures))

\* C2 witness: the 37-wide and the 39-wide encodings of a board, which differ.
C2_Witness ==
    /\ fvPc = "second" /\ fvV1 = 37 /\ fvV2 = 39
    /\ Len(fvR1.f) = 37 /\ Len(fvR2.f) = 39
    /\ fvR1.f # SubSeq(fvR2.f, 1, 37)

\* The versions that leave out no feature standing before one they keep.
IsPrefixVersion(version) ==
    \A i, j \in FeatureIdx :
        (i < j /\ AllFeatures[j].Version <= version) => AllFeatures[i].Version <= version

\* C3 as stated: for every board and every version V < AllFeaturesDim,
\* FeatureVector(B, V) is the first V elements of FeatureVector(B, AllFeaturesDim).
C3_LiteralTruncation ==
    (fvPc = "second" /\ fvV2 = AllFeaturesDim /\ fvV1 < AllFeaturesDim)
        => fvR1.f = SubSeq(fvR2.f, 1, fvV1)

\* C3 as amended: for every board and every version V < AllFeaturesDim,
\* FeatureVector(B, V) is the selection, in registry order, of the full vector's
\* slices [VecIndex, VecIndex + Dim) of the features with Version <= V; it is a
\* leading part of the full vector only for the versions that leave out no
\* feature standing before one they keep (here 39 <= V < 41).
C3_SelectionByFeature ==
    (fvPc = "second" /\ fvV2 = AllFeaturesDim /\ fvV1 < AllFeaturesDim)
        => /\ Len(fvR2.f) = AllFeaturesDim
           /\ fvR1.f = SlicesUpTo(fvR2.f, AllFeaturesDim, fvV1, Len(AllFeatures))
           /\ \A ii \in FeatureIdx :
                  OffsetIn(AllFeaturesDim, ii) = AllFeatures[ii].VecIndex
           /\ IsPrefixVersion(fvV1) => fvR1.f = SubSeq(fvR2.f, 1, Len(fvR1.f))
           /\ IsPrefixVersion(fvV1) <=> fvV1 >= 39

\* C3 witness: version 37 on a board whose MovesToDraw differs from its
\* OppNumThreateningMoves: element 34 of the result is not element 34 of the
\* full vector.
C3_Witness ==
    /\ fvPc = "second" /\ fvV2 = AllFeaturesDim /\ fvV1 = 37
    /\ Len(fvR1.f) = 37
    /\ fvR1.f[35] # fvR2.f[35]
    /\ fvR1.f[35] = fvR2.f[37]

\* The widths the registry has had: that of the features of Version 0, and the
\* Version of every feature added later.
RegistryWidths ==
    {WidthOf(0)} \cup {AllFeatures[i].Version : i \in {j \in FeatureIdx : AllFeatures[j].Version > 0}}

\* C4 as stated: for every board and every version V <= AllFeaturesDim,
\* FeatureVector(B, V) has exactly V elements.
C4_LengthIsVersion ==
    (fvPc # "start" /\ fvV1 <= AllFeaturesDim) => Len(fvR1.f) = fvV1

\* C4 as amended: for every board and every version V <= AllFeaturesDim,
\* FeatureVector(B, V) has as many elements as the features with Version <= V
\* declare (the sum of their Dim); that is exactly V when V is a width the
\* registry has had (37, 39, 41), and FeatureVector(B, AllFeaturesDim) has the
\* registry's total declared width.
C4_LengthIsIncludedWidth ==
    (fvPc # "start" /\ fvV1 <= AllFeaturesDim)
        => /\ ~fvR1.panicked
           /\ Len(fvR1.f) = WidthOf(fvV1)
           /\ fvV1 \in RegistryWidths => Len(fvR1.f) = fvV1
           /\ fvV1 = AllFeaturesDim
                  => Len(fvR1.f) = SumDims(Len(AllFeatures), 0..(F_NUM_FEATURES - 1))
           /\ RegistryWidths = {37, 39, 41}

\* C4 witness: version 38, not a width the registry has had, gives 37 elements.
C4_Witness ==
    /\ fvPc = "first" /\ fvV1 = 38 /\ ~fvR1.panicked
    /\ Len(fvR1.f) = 37

\* C5: FeatureVector called with a version greater than AllFeaturesDim panics:
\* no feature setter has run and no vector is returned.
C5_VersionTooLargeIsFatal ==
    /\ (fvPc # "start" /\ fvV1 > AllFeaturesDim)
           => fvR1.panicked /\ fvR1.setters = <<>> /\ fvR1.f = <<>>
    /\ (fvPc = "second" /\ fvV2 > AllFeaturesDim)
           => fvR2.panicked /\ fvR2.setters = <<>> /\ fvR2.f = <<>>

\* C5 witness: a call with version AllFeaturesDim + 1 that panicked, after which
\* a call with version AllFeaturesDim on the same board returned a full vector.
C5_Witness ==
    /\ fvPc = "second" /\ fvV1 = AllFeaturesDim + 1 /\ fvR1.panicked
    /\ fvV2 = AllFeaturesDim /\ ~fvR2.panicked /\ Len(fvR2.setters) = F_NUM_FEATURES


(***************************************************************************)
(* Properties of the TensorFlow Scorer (Spec).                             *)
(***************************************************************************)
\* The elements of a sequence.
Range(seq) == {seq[i] : i \in DOMAIN seq}

\* The legal actions of the boards of a batch before its i-th, counted from
\* the boards themselves.
RECURSIVE ActionsBefore(_, _)
ActionsBefore(boards, i) ==
    IF i <= 1 THEN 0
    ELSE ActionsBefore(boards, i - 1) + NumActions(Boards[boards[i - 1]])

ActionsOf(boards) == ActionsBefore(boards, Len(boards) + 1)

\* The entries of all segments of an actionProbsBatch, one after the other.
RECURSIVE Concat(_)
Concat(segments) ==
    IF segments = <<>> THEN <<>>
    ELSE Head(segments).elems \o Concat(Tail(segments))

\* C1: when Score returns for a finished board, the score is the fixed
\* terminal value (+10 win, -10 loss, 0 draw) and the model was not consulted:
\* no feeds built, no session run.
C1_FinishedBoardBypassesModel ==
    \A c \in DOMAIN pc :
        (/\ pc[c] = "done"
         /\ call[c].op = "Score"
         /\ IsFinished(Boards[call[c].boards[1]]))
        => /\ EndGameScore(Boards[call[c].boards[1]]).isEnd
           /\ ScoreReturn(call[c]).score = EndGameScore(Boards[call[c].boards[1]]).score
           /\ call[c].runs = <<>>
           /\ call[c].feeds = NoFeeds

\* C7: NextSession hands out the pooled sessions in rotation: the index stays
\* within the pool, the read of the index and its advance are made by one
\* caller at a time (the holder of the mutex), any P sessions handed out one
\* after the other are the P sessions of the pool, and the one after them is
\* the first of them again.
C7_RoundRobinUnderMutex ==
    LET P == Len(sessionPool)
        inside == {c \in DOMAIN pc : pc[c] = "write"}
    IN  /\ sessionTurn \in 0..(P - 1)
        /\ Cardinality(inside) <= 1
        /\ \A c \in inside : mu = c /\ call[c].sess = sessionPool[sessionTurn + 1]
        /\ (inside = {}) => (mu = 0 \/ crashed)
        /\ \A i, j \in DOMAIN nsHist :
              /\ (i < j /\ j - i < P) => nsHist[i] # nsHist[j]
              /\ (j - i = P) => nsHist[i] = nsHist[j]
        /\ Range(nsHist) \subseteq Range(sessionPool)
        /\ (Len(nsHist) >= P) => (Range(nsHist) = Range(sessionPool))

\* C7 happens: with a pool of two sessions, three were handed out, and two
\* callers hold different sessions at the same time.
C7_Witness ==
    /\ Len(sessionPool) = 2
    /\ Len(nsHist) = 3
    /\ nsHist[1] = nsHist[3]
    /\ \E c, d \in DOMAIN pc :
          /\ c # d
          /\ pc[c] = "run"
          /\ pc[d] = "run"
          /\ call[c].sess # call[d].sess

\* C8: when BatchScore returns and the batch has legal actions, the i-th entry
\* of actionProbsBatch is the segment of the flat probability stream that
\* starts after the legal actions of the boards before i and is as long as
\* the legal actions of board i; the segments joined are the stream.
C8_ProbsSlicedPerBoard ==
    \A c \in DOMAIN pc :
        (pc[c] = "done" /\ ActionsOf(call[c].boards) > 0)
        => LET boards == call[c].boards
               stream == call[c].results.probs
               apb == call[c].actionProbsBatch
           IN  /\ Len(apb) = Len(boards)
               /\ Len(stream) = ActionsOf(boards)
               /\ \A i \in DOMAIN apb :
                     LET off == ActionsBefore(boards, i)
                         n == NumActions(Boards[boards[i]])
                     IN  /\ Len(apb[i].elems) = n
                         /\ \A k \in 1..n : apb[i].elems[k] = stream[off + k]
               /\ Concat(apb) = stream

\* C8 happens: a batch of boards with 2, 0 and 5 legal actions is returned,
\* the third segment starting at the third probability.
C8_Witness ==
    \E c \in DOMAIN pc :
        /\ pc[c] = "done"
        /\ call[c].op = "BatchScore"
        /\ [i \in DOMAIN call[c].boards |-> NumActions(Boards[call[c].boards[i]])]
              = <<2, 0, 5>>
        /\ [i \in DOMAIN call[c].actionProbsBatch |->
               Len(call[c].actionProbsBatch[i].elems)] = <<2, 0, 5>>
        /\ call[c].actionProbsBatch[3].elems[1] = call[c].results.probs[3]

\* C9: a call of BatchScore runs the model at most once, not before it got
\* its session and exactly once by the time it returns, on the pooled session
\* NextSession gave it; the run fetches the value output first, and the policy
\* output exactly when the boards of the batch have legal actions.
C9_OneRunPerBatch ==
    \A c \in DOMAIN pc :
        LET cl == call[c]
        IN  /\ Len(cl.runs) <= 1
            /\ pc[c] \in {"idle", "lock", "write", "run"} => cl.runs = <<>>
            /\ pc[c] = "done" => Len(cl.runs) = 1
            /\ \A k \in DOMAIN cl.runs :
                  /\ cl.runs[k].sess \in Range(sessionPool)
                  /\ cl.runs[k].sess = cl.sess
                  /\ cl.runs[k].fetches[1] = "BoardPredictions"
                  /\ ("ActionsPredictions" \in Range(cl.runs[k].fetches))
                        <=> (ActionsOf(cl.boards) > 0)
                  /\ Len(cl.runs[k].fetches) <= 2

\* C9 happens: two batches were returned at the same time, one without legal
\* actions that fetched the value output alone and one with legal actions
\* that fetched both outputs, each after one run.
C9_Witness ==
    \E c, d \in DOMAIN pc :
        /\ pc[c] = "done"
        /\ pc[d] = "done"
        /\ Len(call[c].boards) = 2
        /\ ActionsOf(call[c].boards) = 0
        /\ call[c].runs[1].fetches = <<"BoardPredictions">>
        /\ ActionsOf(call[d].boards) > 0
        /\ call[d].runs[1].fetches = <<"BoardPredictions", "ActionsPredictions">>

\* C10: a run whose value predictions are not one per board, or whose fetched
\* action probabilities are not one per legal action, ends the process and
\* returns nothing; a call that returns has one score per board and segments
\* whose lengths add up to the legal actions of the batch.
C10_CardinalityMismatchIsFatal ==
    \A c \in DOMAIN pc :
        LET cl == call[c]
            fetched == Len(cl.fetches) > 1
            mismatch ==
                \/ Len(cl.results.values) # Len(cl.boards)
                \/ fetched /\ Len(cl.results.probs) # ActionsOf(cl.boards)
        IN  /\ (cl.runs # <<>> /\ mismatch)
               => /\ pc[c] = "panicked"
                  /\ crashed
                  /\ cl.scores = <<>>
                  /\ cl.actionProbsBatch = <<>>
            /\ pc[c] = "done"
               => /\ Len(cl.scores) = Len(cl.boards)
                  /\ Len(cl.actionProbsBatch) = Len(cl.boards)
                  /\ Len(Concat(cl.actionProbsBatch)) = ActionsOf(cl.boards)

\* C10 happens: the run gave one value prediction per board and one action
\* probability too many, and the process ended.
C10_Witness ==
    \E c \in DOMAIN pc :
        /\ pc[c] = "panicked"
        /\ call[c].runs # <<>>
        /\ ~call[c].results.err
        /\ Len(call[c].results.values) = Len(call[c].boards)
        /\ Len(call[c].results.probs) = ActionsOf(call[c].boards) + 1

(***************************************************************************)
(* Properties of BatchScorerWrapper (SpecWrapper).                         *)
(***************************************************************************)
\* C6: the wrapper calls Score once per board, in the order of the list (as
\* many calls made as loop turns taken); when it returns, scores[i] is what
\* the i-th call returned, actionProbsBatch is nil when every call returned
\* nil probabilities, and otherwise has one entry per board, the i-th being
\* what the i-th call returned.
C6_WrapperIndexAligned ==
    /\ Len(wCalls) = wIdx
    /\ \A i \in DOMAIN wCalls : wCalls[i].board = wBoards[i]
    /\ wPc = "returned"
       => /\ Len(wCalls) = Len(wBoards)
          /\ Len(wScores) = Len(wBoards)
          /\ \A i \in DOMAIN wBoards : wScores[i] = wCalls[i].score
          /\ wApb.isNil <=> (\A i \in DOMAIN wCalls : wCalls[i].actionProbs.isNil)
          /\ ~wApb.isNil
             => /\ Len(wApb.elems) = Len(wBoards)
                /\ \A i \in DOMAIN wBoards : wApb.elems[i] = wCalls[i].actionProbs

\* C6 happens: of two boards the first got nil probabilities and the second
\* did not, and the wrapper returned.
C6_Witness ==
    /\ wPc = "returned"
    /\ Len(wBoards) = 2
    /\ wCalls[1].actionProbs.isNil
    /\ ~wCalls[2].actionProbs.isNil
    /\ wApb.elems[2] = wCalls[2].actionProbs
    /\ wScores[1] # wScores[2]


(***************************************************************************)
(* Properties of New, Learn and Save (SpecLearn, SpecScorerLearn).         *)
(***************************************************************************)
\* C11: Learn and Save on a pool of more than one session end the process at
\* once: no run on any session, no rename, and the checkpoint files as they
\* were.
C11_MultiSessionLearnSaveFatal ==
    (lOp.op \in {"Learn", "Save"} /\ lPool > 1)
    => /\ lPc = "panicked"
       /\ lOp.outcome = "pool"
       /\ lRuns = <<>>
       /\ lRenames = <<>>
       /\ files = lOp.before

\* C11 happens: Save was called on a pool of two sessions with a checkpoint
\* pair on disk.
C11_Witness ==
    /\ lOp.op = "Save"
    /\ lPool = 2
    /\ lPc = "panicked"
    /\ files.index # 0
    /\ files.data # 0

\* The save operation has been run by the call under way.
SaveOpRun == \E k \in DOMAIN lRuns : lRuns[k].op = "save"

C13_NewReportsFailure ==
    (lOp.op = "New" /\ lOp.outcome \in {"restore", "init"}) => lPc # "panicked"

\* The i-th row of action labels, empty when there is none.
LabelRow(actionsLabels, i) ==
    IF i \in DOMAIN actionsLabels THEN actionsLabels[i] ELSE <<>>

RECURSIVE SumLens(_)
SumLens(rows) == IF rows = <<>> THEN 0 ELSE Len(Head(rows)) + SumLens(Tail(rows))

C17_EmptyBatchIsFatal ==
    /\ \A c \in DOMAIN pc :
          (call[c].op \in {"BatchScore", "Score"} /\ call[c].boards = <<>>)
          => /\ pc[c] = "panicked"
             /\ crashed
             /\ call[c].sess = 0
             /\ call[c].runs = <<>>
             /\ call[c].scores = <<>>
             /\ call[c].actionProbsBatch = <<>>
    /\ (lOp.op = "Learn" /\ lOp.boards = <<>>)
       => /\ lPc = "panicked"
          /\ lRuns = <<>>

\* C17 happens: BatchScore was called with no boards and the process ended.
C17_Witness ==
    \E c \in DOMAIN pc :
        /\ call[c].op = "BatchScore"
        /\ call[c].boards = <<>>
        /\ pc[c] = "panicked"

\* C17 happens for Learn too: called on one session with no boards and no
\* labels.
C17_WitnessLearn ==
    /\ lOp.op = "Learn"
    /\ lOp.boards = <<>>
    /\ lOp.actionsLabels = <<>>
    /\ lPool = 1
    /\ lOp.outcome = "empty"
    /\ lPc = "panicked"


(***************************************************************************)
(* Properties of the auto-batching dispatcher (SpecDisp, SpecDispFair).    *)
(***************************************************************************)
\* The batches formed so far: those handed over and the one accumulating.
BatchesFormed ==
    [b \in DOMAIN dBatches |-> dBatches[b].reqs]
    \o (IF dAccum = NoBatch THEN <<>> ELSE <<dAccum.reqs>>)

RECURSIVE Flatten(_)
Flatten(seqs) == IF seqs = <<>> THEN <<>> ELSE Head(seqs) \o Flatten(Tail(seqs))

\* ceil(n / k)
CeilDiv(n, k) == (n + k - 1) \div k

\* Every batch handed over has been executed and its results delivered.
NoBatchInFlight == \A b \in DOMAIN dBatches : dBatches[b].state = "delivered"

\* C15: with the target batch size K never changed, once the N requests
\* submitted have all been received they are in ceil(N/K) batches of at most
\* K requests each, every request in exactly one batch and in submission
\* order; no completion signal fires twice; and once no batch is in flight
\* any more every submitted request has its result and has been signalled
\* exactly once.
C15_PartitionAndDelivery ==
    (dCtl = 0 /\ dQueue = <<>> /\ dTarget > 0)
    => /\ Len(BatchesFormed) = CeilDiv(Len(dOrder), dTarget)
       /\ \A b \in DOMAIN BatchesFormed : Len(BatchesFormed[b]) <= dTarget
       /\ Flatten(BatchesFormed) = dOrder
       /\ \A r \in DOMAIN dSignals : dSignals[r] <= 1
       /\ NoBatchInFlight
          => \A i \in DOMAIN dOrder :
                /\ dSignals[dOrder[i]] = 1
                /\ dResult[dOrder[i]] # <<>>

\* C16: every request submitted is eventually signalled, whatever the target
\* batch size and the number of requests; and with a target of 1 that was
\* never changed no request is ever held in an accumulating batch.
C16_EveryRequestCompletes ==
    /\ \A r \in Requests : (dState[r] = "waiting") ~> (dSignals[r] = 1)
    /\ []((dCtl = 0 /\ dTarget = 1) => dAccum = NoBatch)


(***************************************************************************)
(* Properties of the feature setters (SpecFV).                             *)
(***************************************************************************)
\* The registry entries fNumThreateningMoves writes.
ThreateningIdx == {i \in FeatureIdx : AllFeatures[i].Setter = "fNumThreateningMoves"}

\* C18: on every board on which the queen of the opponent of the side to move
\* is not yet placed, every pair written by fNumThreateningMoves is (0, 0) in
\* the encoded vector.
C18_NoQueenNoThreat ==
    (fvPc # "start" /\ ~fvR1.panicked
     /\ Available(Boards[fvBoard], OpponentPlayer(Boards[fvBoard]), QUEEN) > 0)
    => \A i \in ThreateningIdx :
          AllFeatures[i].Version <= fvV1 => SliceIn(fvR1.f, fvV1, i) = <<0, 0>>

\* C18 happens: the full vector of the board on which the opponent has pieces
\* but no queen, while the side to move has a piece that can move next to the
\* position the unset queen position names.
C18_Witness ==
    /\ fvPc # "start"
    /\ fvV1 = AllFeaturesDim
    /\ Boards[fvBoard] = QueenlessBoard
    /\ \E k \in DOMAIN QueenlessBoard.PlayersActions[0] :
          /\ QueenlessBoard.PlayersActions[0][k].Move
          /\ PosInSlice(Neighbours(QueenlessBoard.QueenPos[1]),
                        QueenlessBoard.PlayersActions[0][k].TargetPos)
    /\ \A i \in ThreateningIdx : SliceIn(fvR1.f, fvV1, i) = <<0, 0>>

\* The board seen from the other side.
SwapSides(b) == [b EXCEPT !.NextPlayer = 1 - b.NextPlayer]

\* The self and opponent entries of the registry, by FId.
SelfOppPairs ==
    {<<F_NUM_OFFBOARD, F_OPP_NUM_OFFBOARD>>,
     <<F_NUM_SURROUNDING_QUEEN, F_OPP_NUM_SURROUNDING_QUEEN>>,
     <<F_NUM_CAN_MOVE, F_OPP_NUM_CAN_MOVE>>,
     <<F_NUM_THREATENING_MOVES, F_OPP_NUM_THREATENING_MOVES>>}

\* What the writer of the self feature selfFId produces for board b.
SelfSlice(b, selfFId) ==
    LET def == AllFeatures[selfFId + 1]
        f == Setter(b, def, [k \in 1..AllFeaturesDim |-> 0])
    IN  SubSeq(f, def.VecIndex + 1, def.VecIndex + def.Dim)

\* C19: in every encoded vector, the slice of each opponent feature is what
\* the writer of its self feature produces for the board with the side to
\* move and the opponent swapped.
C19_OppIsSelfSwapped ==
    (fvPc # "start" /\ ~fvR1.panicked)
    => \A pair \in SelfOppPairs :
          AllFeatures[pair[2] + 1].Version <= fvV1
          => SliceIn(fvR1.f, fvV1, pair[2] + 1)
                = SelfSlice(SwapSides(Boards[fvBoard]), pair[1])


(***************************************************************************)
(* Properties of the registry (SpecRegistry).                              *)
(***************************************************************************)
RECURSIVE SumOfDims(_)
SumOfDims(feats) ==
    IF feats = <<>> THEN 0 ELSE Head(feats).Dim + SumOfDims(Tail(feats))

\* The layout of an initialized registry.
LayoutOk ==
    /\ \A i \in DOMAIN regFeatures : regFeatures[i].FId = i - 1
    /\ \A i, j \in DOMAIN regFeatures :
          i < j => /\ regFeatures[i].VecIndex < regFeatures[j].VecIndex
                   /\ regFeatures[i].VecIndex + regFeatures[i].Dim
                         <= regFeatures[j].VecIndex
    /\ regFeatures # <<>> => regFeatures[1].VecIndex = 0
    /\ \A i \in DOMAIN regFeatures :
          i > 1 => regFeatures[i].VecIndex
                      = regFeatures[i - 1].VecIndex + regFeatures[i - 1].Dim
    /\ regDim = SumOfDims(regFeatures)
    /\ \A i \in DOMAIN regFeatures :
          /\ regFeatures[i].FId = regDecl[i].FId
          /\ regFeatures[i].Dim = regDecl[i].Dim

\* C20: after init the offsets are strictly increasing, the slices of the
\* features neither overlap nor leave a gap, AllFeaturesDim is the sum of the
\* Dim, and entry i has FId i; init ends the program exactly when some entry
\* has another FId; and once the registry is initialized no step changes
\* AllFeatures or AllFeaturesDim.
C20_RegistryLayoutFixed ==
    /\ [](regPc = "initialized" => LayoutOk)
    /\ [](regPc = "fatal" <=> (/\ regPc \notin {"declared", "parked"}
                               /\ \E i \in DOMAIN regDecl : regDecl[i].FId # i - 1))
    /\ [][regPc = "initialized"
          => /\ regFeatures' = regFeatures
             /\ regDim' = regDim
             /\ regPc' = regPc]_vars

\* C20 happens: on the program's registry, initialized to width 41 with the
\* entry of FId 7 at offset 34, FeatureVector has been run.
C20_Witness ==
    /\ regPc = "initialized"
    /\ regDecl = AllFeaturesDecl
    /\ regDim = 41
    /\ regFeatures[8].FId = 7
    /\ regFeatures[8].VecIndex = 34
    /\ regLast.op = "FeatureVector"
    /\ Len(regLast.out) = 39


(***************************************************************************)
(* Properties of buildFeeds (Spec, SpecLearn).                             *)
(***************************************************************************)
\* The row counts of the action tensors of a set of feeds.
ActionRowCounts(feeds) ==
    {Len(feeds.actionsBoardIndices), Len(feeds.actionsFeatures),
     Len(feeds.actionsSourceCenter), Len(feeds.actionsSourceNeighbourhood),
     Len(feeds.actionsTargetCenter), Len(feeds.actionsTargetNeighbourhood)}

\* The rows tagged with board index i.
RowsOf(feeds, i) ==
    {j \in DOMAIN feeds.actionsBoardIndices : feeds.actionsBoardIndices[j] = i}

\* The legal actions of the boards of a batch, board after board, each in the
\* board's order.
RECURSIVE BatchActions(_)
BatchActions(boards) ==
    IF boards = <<>> THEN <<>>
    ELSE DerivedActions(Boards[Head(boards)]) \o BatchActions(Tail(boards))

\* The feeds of boards are laid out as C21 says.
FeedsLaidOut(boards, feeds, totalNumActions) ==
    LET idx == feeds.actionsBoardIndices
        all == BatchActions(boards)
    IN  /\ Len(feeds.boardFeatures) = Len(boards)
        /\ ActionRowCounts(feeds) = {totalNumActions}
        /\ totalNumActions = Len(all)
        /\ \A j, k \in DOMAIN idx : j <= k => idx[j] <= idx[k]
        /\ \A j \in DOMAIN idx : idx[j] \in 0..(Len(boards) - 1)
        /\ \A i \in 0..(Len(boards) - 1) :
              Cardinality(RowsOf(feeds, i)) = Len(DerivedActions(Boards[boards[i + 1]]))
        /\ \A j \in DOMAIN idx :
              /\ feeds.actionsFeatures[j] = <<IF all[j].Move THEN 1 ELSE 0>>
              /\ feeds.actionsSourceCenter[j] = all[j].SourcePos
              /\ feeds.actionsTargetCenter[j] = all[j].TargetPos

\* C21: the feeds a call of BatchScore or Score built hold one action row per
\* legal action of the batch, board after board and in each board's action
\* order; every row is tagged with the index of its board in the batch, so the
\* tags never decrease and index i occurs once per legal action of board i;
\* all action tensors have totalNumActions rows.
C21_OneRowPerAction ==
    \A c \in DOMAIN pc :
        (call[c].op # "none" /\ call[c].feeds # NoFeeds)
        => FeedsLaidOut(call[c].boards, call[c].feeds, call[c].totalNumActions)

\* C21 happens: the feeds of the batch of three boards with 2, 0 and 5 legal
\* actions were built: seven rows, tagged 0, 0, 2, 2, 2, 2, 2.
C21_Witness ==
    \E c \in DOMAIN pc :
        /\ call[c].op = "BatchScore"
        /\ call[c].boards = <<2, 8, 1>>
        /\ call[c].totalNumActions = 7
        /\ call[c].feeds.actionsBoardIndices = <<0, 0, 2, 2, 2, 2, 2>>
        /\ pc[c] = "done"


(***************************************************************************)
(* Properties of the pool's weights (SpecPool).                            *)
(***************************************************************************)
\* C22: once New has returned, every session of the pool holds the same
\* weights, and two calls of BatchScore with the same boards return the same
\* scores whichever sessions answered them.
C22_SessionsInterchangeable ==
    poolPc = "ready"
    => /\ \A i, j \in DOMAIN poolWeights : poolWeights[i] = poolWeights[j]
       /\ \A m, n \in DOMAIN poolScored :
             poolScored[m].boards = poolScored[n].boards
             => poolScored[m].scores = poolScored[n].scores


(***************************************************************************)
(* Properties of the game driver (SpecDriver).                             *)
(***************************************************************************)
\* The last call was an undoAction made with a human to move, the game not
\* finished and at least two actions played in the current game.
UndoneWithTwoPlayed ==
    /\ gLast.op = "undoAction"
    /\ gLast.acted
    /\ gLast.before.game = gGames
    /\ Len(gLast.before.moves) >= 2

\* C23: once a game is started, gameSeq is not empty, begins with the initial
\* board of the current game and ends with the current board; and an
\* undoAction made with a human to move, the game not finished and two
\* actions played puts the board back to the position before the last two
\* actions, without reading gameSeq out of range.
C23_GameSeqTracksGame ==
    /\ (started /\ gCrashed = "no")
       => /\ gameSeq # <<>>
          /\ gameSeq[1] = NewBoard(gGames)
          /\ gameSeq[Len(gameSeq)] = gBoard
    /\ UndoneWithTwoPlayed
       => /\ gCrashed # "panic"
          /\ gBoard = [gLast.before EXCEPT
                          !.moves = SubSeq(@, 1, Len(gLast.before.moves) - 2)]

====
